---- MODULE Spec2Model ----
(***************************************************************************)
(* HeyReach -> Attio incremental sync engine (src/heyreach-backfill.js).   *)
(*                                                                         *)
(* The Source holds conversations (threads); thread t has the messages     *)
(* 1..msgCount[t], message i was created at time i, so the thread's        *)
(* lastMessageAt is msgCount[t].  The Sink holds person and message        *)
(* records.  One run of the process is main(): startup guards, watermark   *)
(* load, the inbox flow (concurrent filter-batch workers, duplicate guard, *)
(* CSV and watermark write, people upsert, thread upsert, report) or the   *)
(* per-lead flow (also the fallback when the inbox flow throws).           *)
(* Every awaited HTTP request is one step; synchronous code between two    *)
(* awaits is part of the step that follows the await.                      *)
(***************************************************************************)
EXTENDS Integers, Sequences, FiniteSets, TLC

\* ---------------------------------------------------------------- bounds
MaxThreads == 2
MaxMsgs == 2
MaxRuns == 2
MaxFaults == 1

\* ------------------------------------------------- program configuration
\* HR_INBOX_CONCURRENCY, HR_INBOX_LIMIT, HR_INBOX_MAX_PAGES as set in the
\* environment of the modelled deployment.
INBOX_CONCURRENCY == 2
INBOX_LIMIT == 2
INBOX_MAX_PAGES == 2

Threads == 1..MaxThreads
Batches == {1, 2}

\* ------------------------------------------------------------ the Source
\* correspondentProfile.profileUrl of a conversation: thread 2 has none (0),
\* the others belong to the one profile 1.
ProfileOf(t) == IF t = 2 THEN 0 ELSE 1

\* Filter batches overlap: thread 2 is returned by every batch (a list batch
\* and a campaign batch both hold it), the others by one batch each.
InBatch(t, b) == IF t = 2 THEN TRUE ELSE b = (((t - 1) \div 2) % 2) + 1

VARIABLES
  msgCount,      \* Source: [Threads -> 0..MaxMsgs], 0 = no such conversation yet
  sinkPeople,    \* Sink: sequence of person records, record id = index
  sinkMsgs,      \* Sink: sequence of linkedin_messages records, id = index
  sinkUnique,    \* Sink schema: linkedin_url_6 and message_uid declared unique
  wmFile,        \* the watermark file at WATERMARK_PATH
  reportFile,    \* run number of the run that last wrote backfill-report.json
  pc,            \* position of the process in main()
  cfg,           \* environment of the running process
  syncState,     \* main: syncState
  batch,         \* main: per filter batch, the worker's loop state
  peopleByUrl,   \* main: peopleByUrl
  peopleRows,    \* main: peopleRows
  threadRows,    \* main: threadRows
  messageRows,   \* main: messageRows
  validatedPeople,
  validatedThreads,
  idByUrl,       \* PEOPLE_RECORD_ID_BY_LINKEDIN_URL
  recCache,      \* PEOPLE_RECORD_CACHE
  objIds,        \* AT_PEOPLE_OBJECT_ID is non-empty
  pIdx,          \* attioUpsertPeople: index of the row in work
  found,         \* attioUpsertPeople: existingPerson of the row in work
  tIdx,          \* attioUpsertThreads: index of the thread in work
  mIdx,          \* attioUpsertThreads: index of the message in work
  lIdx,          \* attioUpsertThreads: index of the person to link
  leadsLeft,     \* per-lead flow: leads whose conversations are not fetched yet
  createdMessageIds,
  messagesByPerson,
  errors,        \* main: errors
  exitCode,      \* exit code of the last process, -1 while none has exited
  runNo,         \* number of processes started (the clock of new Date())
  faults,        \* failed requests and crashes injected so far
  hist,          \* history of the running process, for the properties
  pg,            \* one paging loop on its own (inbox, leads, conversations)
  gate,          \* the pacing gate of getWithRetry and its callers
  rt,            \* one call of getWithRetry
  pr,            \* one call of probeEndpoints
  dl,            \* one reconciliation of a people row with a Sink record
  ky,            \* the identity keys of two conversations over the runs
  nz,            \* normalizeLinkedInUrl on a URL and on a variant of it
  lim,           \* one run under the MAX_LEADS cap
  wmk,           \* the watermark of one thread over the runs
  bk,            \* one run of a backup-and-cleanup script
  oi             \* the Sink object ids and the person patches of one run

\* The variables of main() and of the two services.
mainVars == <<msgCount, sinkPeople, sinkMsgs, sinkUnique, wmFile,
              reportFile, pc, cfg, syncState, batch, peopleByUrl, peopleRows,
              threadRows, messageRows, validatedPeople, validatedThreads,
              idByUrl, recCache, objIds, pIdx, found, tIdx, mIdx, lIdx,
              leadsLeft, createdMessageIds, messagesByPerson, errors, exitCode,
              runNo, faults, hist>>

\* The variables of the functions that are studied on their own.
unitVars == <<pg, gate, rt, pr, dl, ky, nz, lim, wmk, bk, oi>>

vars == <<mainVars, unitVars>>

\* A function studied on its own is not in use.
Off == [st |-> "off"]

UnitsOff ==
  /\ pg = Off /\ gate = Off /\ rt = Off /\ pr = Off /\ dl = Off /\ ky = Off
  /\ nz = Off /\ lim = Off /\ wmk = Off /\ bk = Off /\ oi = Off

srcVars == <<msgCount>>
sinkVars == <<sinkPeople, sinkMsgs, sinkUnique>>
extractVars == <<batch, peopleByUrl, peopleRows, threadRows, messageRows>>
peopleVars == <<idByUrl, recCache, objIds, pIdx, found>>
threadVars == <<tIdx, mIdx, lIdx, createdMessageIds, messagesByPerson>>

\* ------------------------------------------------------------ data shapes
Min(a, b) == IF a < b THEN a ELSE b

\* The identity key of a conversation: the normalized profile URL, or the
\* synthetic URL built from the conversation id when there is none.
LiUrl(t) ==
  IF ProfileOf(t) = 0 THEN <<"conversation", t>> ELSE <<"in", ProfileOf(t)>>

Keys == {LiUrl(t) : t \in Threads}

\* A people row as built from the correspondent of conversation t; 0 is ''.
\* A correspondent without profile URL carries no name, position or company.
\* conv is the conversation the row was built for (read by the properties).
buildPeopleRowFromCorrespondent(t) ==
  [linkedin_url |-> LiUrl(t),
   full_name |-> IF ProfileOf(t) = 0 THEN 0 ELSE 1,
   job_title |-> IF ProfileOf(t) = 0 THEN 0 ELSE 1,
   company_name |-> IF ProfileOf(t) = 0 THEN 0 ELSE 1,
   heyreach_lead_id |-> 0,
   conv |-> t]

NoRec == [has |-> FALSE, last_message_at |-> 0, last_synced |-> 0]

\* The fallback of the watermark load: { last_sync: null, threads: {} }.
EmptySyncState == [last_sync |-> 0, threads |-> [t \in Threads |-> NoRec]]

NoFile == [st |-> "absent", data |-> EmptySyncState]

\* null, as the result of findPersonByLinkedInUrl and as a cache miss.
NoPerson ==
  [recordId |-> 0,
   record |-> [linkedin_url_6 |-> <<"", 0>>, full_name |-> 0, job_title |-> 0,
               company_name |-> 0, heyreach_lead_id |-> 0,
               linkedin_messages |-> {}]]

\* readJsonSafe: a missing file, or one JSON.parse rejects, gives the fallback.
readJsonSafe(file, fallback) == IF file.st = "ok" THEN file.data ELSE fallback

\* ------------------------------------------------------ startup (guards)
\* The environment of a process: HR_API_KEY set, a leads endpoint configured,
\* the conversations endpoint (none, a plain one, an /inbox/ one),
\* HR_FORCE_INBOX, AT_DRY_RUN, and whether the Source and the Sink answer.
AllEnvs ==
  [hrKey : BOOLEAN, leadsUrl : BOOLEAN, convUrl : {"none", "plain", "inbox"},
   force : BOOLEAN, dry : BOOLEAN, srcUp : BOOLEAN, sinkUp : BOOLEAN]

\* What main() reads of the environment after the guards.
Settings(env) ==
  [leadsUrl |-> env.leadsUrl, force |-> env.force, dry |-> env.dry,
   srcUp |-> env.srcUp, sinkUp |-> env.sinkUp]

NoEnv ==
  [leadsUrl |-> FALSE, force |-> FALSE, dry |-> FALSE, srcUp |-> FALSE,
   sinkUp |-> FALSE]

useInbox(env) == env.force \/ env.convUrl = "inbox"

\* fatalIfMissing: TRUE when no guard exits the process.
GuardsPass(env) ==
  /\ env.hrKey
  /\ IF useInbox(env)
       THEN env.convUrl # "none"
       ELSE env.leadsUrl /\ env.convUrl # "none"

\* Environments that differ only in a setting the run never reads are taken
\* once: a run that passes the guards has a leads endpoint, a per-lead run or
\* one without Source is live with the Sink up, a dry run has the Sink up.
Envs ==
  {env \in AllEnvs :
     GuardsPass(env) =>
       /\ env.leadsUrl
       /\ (~useInbox(env) \/ ~env.srcUp) => (~env.dry /\ env.sinkUp)
       /\ env.dry => env.sinkUp}

isIncrementalSync == syncState.last_sync # 0 /\ ~cfg.force

\* A process that takes every run for a live one.
AT_DRY_RUN_Never == FALSE

\* AT_DRY_RUN of the running process.
AT_DRY_RUN == cfg.dry

\* ------------------------------------------------------------ extraction
AllThreads == [i \in 1..MaxThreads |-> i]

\* The conversations the Source holds for filter batch b, in a fixed order.
BatchItems(b) ==
  SelectSeq(AllThreads, LAMBDA t : InBatch(t, b) /\ msgCount[t] > 0)

\* fetchInboxConversations: one page of the batch at an offset.
fetchInboxConversations(b, limit, offset) ==
  LET all == BatchItems(b) IN
  [totalCount |-> Len(all),
   items |-> SubSeq(all, offset + 1, Min(offset + limit, Len(all)))]

\* The watermark test with > in place of >=: a thread whose activity is
\* unchanged is processed again.
ShouldSkipStrict(incremental, threads, convId, lastAt) ==
  /\ incremental
  /\ threads[convId].has
  /\ threads[convId].last_message_at > lastAt

\* The watermark test of one conversation.
ShouldSkip(incremental, threads, convId, lastAt) ==
  /\ incremental
  /\ threads[convId].has
  /\ threads[convId].last_message_at >= lastAt

MessagesOf(t) == [i \in 1..msgCount[t] |-> [thread_id |-> t, createdAt |-> i]]

\* A skip that refreshes last_synced of the record of the skipped thread.
SkipConvTouch(st, t, d) ==
  [st EXCEPT !.decisions = Append(@, d), !.threads[t].last_synced = runNo]

\* The "continue" of a skipped conversation: nothing but the decision (which
\* only the properties read) is recorded.
SkipConv(st, t, d) == [st EXCEPT !.decisions = Append(@, d)]

\* An extraction that keeps no set of seen keys.
peopleByUrlHasNever(byUrl, liUrl) == FALSE

\* peopleByUrl.has(liUrl)
peopleByUrlHas(byUrl, liUrl) == liUrl \in byUrl

\* The body of the per-conversation loop: st holds the rows and maps the
\* loop writes, and the decisions taken on this page.
ProcessConv(st, t) ==
  LET lastAt == msgCount[t]
      liUrl == LiUrl(t)
      skip == ShouldSkip(isIncrementalSync, st.threads, t, lastAt)
      d == [conv |-> t, lastAt |-> lastAt, skipped |-> skip,
            had |-> st.threads[t].has,
            stored |-> st.threads[t].last_message_at]
  IN
  IF skip
    THEN SkipConv(st, t, d)
    ELSE [st EXCEPT
            !.decisions = Append(@, d),
            !.peopleRows =
              IF ~peopleByUrlHas(st.peopleByUrl, liUrl)
                THEN Append(@, buildPeopleRowFromCorrespondent(t))
                ELSE @,
            !.peopleByUrl = @ \cup {liUrl},
            !.threadRows =
              Append(@, [person_match_linkedin_url |-> liUrl,
                         thread_id |-> t,
                         last_message_at |-> lastAt,
                         total_messages |-> msgCount[t]]),
            !.threads[t] =
              [has |-> TRUE, last_message_at |-> lastAt, last_synced |-> runNo],
            !.messageRows = @ \o MessagesOf(t)]

RECURSIVE ProcessItems(_, _)
ProcessItems(items, st) ==
  IF items = <<>> THEN st
  ELSE ProcessItems(Tail(items), ProcessConv(st, Head(items)))

\* p-limit: the INBOX_CONCURRENCY first unfinished batches are running.
Active(b) ==
  /\ ~batch[b].done
  /\ Cardinality({c \in Batches : c < b /\ ~batch[c].done}) < INBOX_CONCURRENCY

RECURSIVE DedupPeople(_, _, _)
DedupPeople(rows, seenUrls, out) ==
  IF rows = <<>> THEN out
  ELSE LET person == Head(rows) IN
       IF person.linkedin_url \notin seenUrls
         THEN DedupPeople(Tail(rows), seenUrls \cup {person.linkedin_url},
                          Append(out, person))
         ELSE DedupPeople(Tail(rows), seenUrls, out)

\* The thread rows have no linkedin_url field, so the key of the duplicate
\* guard is "undefined-<thread_id>".
ThreadGuardKey(thread) == <<"undefined", thread.thread_id>>

RECURSIVE DedupThreads(_, _, _)
DedupThreads(rows, seenThreads, out) ==
  IF rows = <<>> THEN out
  ELSE LET thread == Head(rows) IN
       IF ThreadGuardKey(thread) \notin seenThreads
         THEN DedupThreads(Tail(rows), seenThreads \cup {ThreadGuardKey(thread)},
                           Append(out, thread))
         ELSE DedupThreads(Tail(rows), seenThreads, out)


\* ---------------------------------------------------------------- history
\* What the running process has done so far; it is read by the properties
\* only.  prevClean outlives the process: the previous process was a live
\* inbox run that completed without any failed request, and the Source has
\* not changed since it started.  msgsAtStart is the number of messages the
\* Sink held when the process started; linkFail, linkLogged: a back-reference
\* patch of this process failed, and one was logged as failed.
NoHist(prevClean) ==
  [flow |-> "none",
   loaded |-> EmptySyncState,
   creates |-> [k \in Keys |-> 0],
   writes |-> [k \in Keys |-> 0],
   msgReqs |-> [t \in Threads |-> 0],
   failed |-> {},
   dupCreate |-> FALSE,
   nCreated |-> 0,
   nUpdated |-> 0,
   reqFail |-> FALSE,
   srcOk |-> FALSE,
   decisions |-> <<>>,
   msgsAtStart |-> 0,
   linkFail |-> FALSE,
   linkLogged |-> FALSE,
   prevClean |-> prevClean]

\* The memory of a process that has not started.
MemoryInit ==
  /\ cfg = NoEnv
  /\ syncState = EmptySyncState
  /\ batch = [b \in Batches |-> [done |-> FALSE, offset |-> 0, page |-> 0]]
  /\ peopleByUrl = {}
  /\ peopleRows = <<>>
  /\ threadRows = <<>>
  /\ messageRows = <<>>
  /\ validatedPeople = <<>>
  /\ validatedThreads = <<>>
  /\ idByUrl = [k \in Keys |-> 0]
  /\ recCache = [k \in Keys |-> NoPerson]
  /\ objIds = FALSE
  /\ pIdx = 0
  /\ found = NoPerson
  /\ tIdx = 0
  /\ mIdx = 0
  /\ lIdx = 0
  /\ leadsLeft = {}
  /\ createdMessageIds = <<>>
  /\ messagesByPerson = <<>>
  /\ errors = {}

memVars == <<cfg, syncState, batch, peopleByUrl, peopleRows, threadRows,
             messageRows, validatedPeople, validatedThreads, idByUrl, recCache,
             objIds, pIdx, found, tIdx, mIdx, lIdx, leadsLeft,
             createdMessageIds, messagesByPerson, errors>>

Init ==
  /\ msgCount \in [Threads -> 0..1]
  /\ sinkPeople = <<>>
  /\ sinkMsgs = <<>>
  /\ sinkUnique \in BOOLEAN
  /\ wmFile = NoFile
  /\ reportFile = 0
  /\ pc = "idle"
  /\ MemoryInit
  /\ exitCode = -1
  /\ runNo = 0
  /\ faults = 0
  /\ hist = NoHist(FALSE)
  /\ UnitsOff

\* The outcome of one request: a 2xx response, another status, an exception.
Outcomes == {"ok", "status", "throw"}

\* While a service is down (srcUp, sinkUp of the environment) every request
\* to it fails; while it is up a request fails only as an injected fault.
MayBe(outcome, up) ==
  IF up THEN outcome = "ok" \/ faults < MaxFaults ELSE outcome # "ok"

Cost(outcome, up) == IF up /\ outcome # "ok" THEN 1 ELSE 0

\* ----------------------------------------------------- the Source changes
\* A new message arrives in a thread (between two runs).
SourceNewMessage(t) ==
  /\ UNCHANGED unitVars
  /\ pc = "idle"
  /\ msgCount[t] < MaxMsgs
  /\ msgCount' = [msgCount EXCEPT ![t] = @ + 1]
  /\ hist' = [hist EXCEPT !.prevClean = FALSE]
  /\ UNCHANGED <<sinkVars, wmFile, reportFile, pc, memVars, exitCode,
                 runNo, faults>>

\* ------------------------------------------------------------------ main
\* Module load and the head of main(): the guards, then the watermark load.
StartRun(env) ==
  /\ UNCHANGED unitVars
  /\ pc = "idle"
  /\ runNo < MaxRuns
  /\ runNo' = runNo + 1
  /\ cfg' = Settings(env)
  /\ IF GuardsPass(env)
       THEN /\ syncState' = readJsonSafe(wmFile, EmptySyncState)
            /\ pc' = IF useInbox(env) THEN "inbox" ELSE "leads"
            /\ hist' = [hist EXCEPT
                          !.flow = IF useInbox(env) THEN "inbox" ELSE "lead",
                          !.msgsAtStart = Len(sinkMsgs),
                          !.loaded = readJsonSafe(wmFile, EmptySyncState)]
            /\ exitCode' = -1
       ELSE /\ syncState' = syncState
            /\ pc' = "exited"
            /\ hist' = hist
            /\ exitCode' = 1
  /\ UNCHANGED <<srcVars, sinkVars, wmFile, reportFile, batch, peopleByUrl,
                 peopleRows, threadRows, messageRows, validatedPeople,
                 validatedThreads, peopleVars, threadVars, leadsLeft, errors, faults>>

\* One page of filter batch b arrives and its conversations are processed.
PageArrives(b) ==
  /\ UNCHANGED unitVars
  /\ pc = "inbox"
  /\ Active(b)
  /\ cfg.srcUp
  /\ LET page == fetchInboxConversations(b, INBOX_LIMIT, batch[b].offset)
         st == ProcessItems(page.items,
                 [peopleRows |-> peopleRows, peopleByUrl |-> peopleByUrl,
                  threadRows |-> threadRows, messageRows |-> messageRows,
                  threads |-> syncState.threads, decisions |-> <<>>])
         offset == batch[b].offset + Len(page.items)
         stop == \/ Len(page.items) = 0
                 \/ offset >= page.totalCount
                 \/ batch[b].page + 1 >= INBOX_MAX_PAGES
     IN
     /\ peopleRows' = st.peopleRows
     /\ peopleByUrl' = st.peopleByUrl
     /\ threadRows' = st.threadRows
     /\ messageRows' = st.messageRows
     /\ syncState' = [syncState EXCEPT !.threads = st.threads]
     /\ batch' = [batch EXCEPT ![b] =
                    [done |-> stop, offset |-> offset, page |-> @.page + 1]]
     /\ hist' = [hist EXCEPT !.decisions = st.decisions, !.srcOk = TRUE]
  /\ UNCHANGED <<srcVars, sinkVars, wmFile, reportFile, pc, cfg,
                 validatedPeople, validatedThreads, peopleVars, threadVars,
                 leadsLeft, errors, exitCode, runNo, faults>>

\* getWithRetry throws for a page of batch b: Promise.all rejects and the
\* catch of the inbox flow falls back to the per-lead flow.
PageFetchFails(b) ==
  /\ UNCHANGED unitVars
  /\ pc = "inbox"
  /\ Active(b)
  /\ MayBe("throw", cfg.srcUp)
  /\ faults' = faults + Cost("throw", cfg.srcUp)
  /\ pc' = "leads"
  /\ hist' = [hist EXCEPT !.flow = "fallback", !.reqFail = TRUE,
                          !.decisions = <<>>]
  /\ UNCHANGED <<srcVars, sinkVars, wmFile, reportFile, cfg, syncState,
                 extractVars, validatedPeople, validatedThreads, peopleVars,
                 threadVars, leadsLeft, errors, exitCode, runNo>>

\* All workers are done: the duplicate guard and the CSV files.
WriteOutputs ==
  /\ UNCHANGED unitVars
  /\ pc = "inbox"
  /\ \A b \in Batches : batch[b].done
  /\ validatedPeople' = DedupPeople(peopleRows, {}, <<>>)
  /\ validatedThreads' = DedupThreads(threadRows, {}, <<>>)
  /\ pc' = "wm_open"
  /\ hist' = [hist EXCEPT !.decisions = <<>>]
  /\ UNCHANGED <<srcVars, sinkVars, wmFile, reportFile, cfg, syncState,
                 extractVars, peopleVars, threadVars, leadsLeft, errors,
                 exitCode, runNo, faults>>

\* writeJsonSafe(WATERMARK_PATH, syncState): fs.writeFileSync opens the file
\* with flag 'w', which truncates it, and then writes the text.
WatermarkOpen ==
  /\ UNCHANGED unitVars
  /\ pc = "wm_open"
  /\ syncState' = [syncState EXCEPT !.last_sync = runNo]
  /\ wmFile' = [st |-> "partial", data |-> EmptySyncState]
  /\ pc' = "wm_write"
  /\ UNCHANGED <<srcVars, sinkVars, reportFile, cfg, extractVars,
                 validatedPeople, validatedThreads, peopleVars, threadVars,
                 leadsLeft, errors, exitCode, runNo, hist, faults>>

WatermarkWrite ==
  /\ UNCHANGED unitVars
  /\ pc = "wm_write"
  /\ wmFile' = [st |-> "ok", data |-> syncState]
  /\ pc' = "people"
  /\ UNCHANGED <<srcVars, sinkVars, reportFile, cfg, syncState, extractVars,
                 validatedPeople, validatedThreads, peopleVars, threadVars,
                 leadsLeft, errors, exitCode, runNo, hist, faults>>


\* ------------------------------------------------------------------ Sink

\* query(filter linkedin_url_6 = key, limit 1): the id of the first match, 0
\* when there is none.
SinkQuery(key) ==
  LET hits == {i \in 1..Len(sinkPeople) : sinkPeople[i].linkedin_url_6 = key}
  IN IF hits = {} THEN 0 ELSE CHOOSE i \in hits : \A j \in hits : i <= j

SinkHasUid(uid) == \E i \in 1..Len(sinkMsgs) : sinkMsgs[i].message_uid = uid

\* patch(id, values): only the attributes of the payload change.
SinkPatch(people, id, changes) ==
  [people EXCEPT ![id] =
     [@ EXCEPT
        !.full_name = IF changes.name # 0 THEN changes.name ELSE @,
        !.job_title = IF changes.job_title_5 # 0 THEN changes.job_title_5 ELSE @,
        !.company_name =
          IF changes.company_name # 0 THEN changes.company_name ELSE @,
        !.heyreach_lead_id =
          IF changes.heyreach_lead_id # 0 THEN changes.heyreach_lead_id ELSE @]]

\* ---------------------------------------------------------- reconciler
\* A reading of the record that never finds the external id.
extractCurrentValuesNoId(record) ==
  [full_name |-> record.full_name,
   job_title |-> record.job_title,
   company_name |-> record.company_name,
   heyreach_lead_id |-> 0]

extractCurrentValues(record) ==
  [full_name |-> record.full_name,
   job_title |-> record.job_title,
   company_name |-> record.company_name,
   heyreach_lead_id |-> record.heyreach_lead_id]

\* A blind overwrite, for comparison: every non-empty field of the row.
detectChangesBlind(currentValues, newRow) ==
  [name |-> newRow.full_name,
   job_title_5 |-> newRow.job_title,
   company_name |-> newRow.company_name,
   heyreach_lead_id |->
     IF currentValues.heyreach_lead_id = 0 THEN newRow.heyreach_lead_id ELSE 0]

\* The changed fields; 0 stands for a key that is not in the object.
detectChanges(currentValues, newRow) ==
  [name |->
     IF newRow.full_name # 0 /\ newRow.full_name # currentValues.full_name
       THEN newRow.full_name ELSE 0,
   job_title_5 |->
     IF newRow.job_title # 0 /\ newRow.job_title # currentValues.job_title
       THEN newRow.job_title ELSE 0,
   company_name |->
     IF newRow.company_name # 0
        /\ newRow.company_name # currentValues.company_name
       THEN newRow.company_name ELSE 0,
   heyreach_lead_id |->
     IF newRow.heyreach_lead_id # 0 /\ currentValues.heyreach_lead_id = 0
       THEN newRow.heyreach_lead_id ELSE 0]

AnyChange(changes) ==
  \/ changes.name # 0
  \/ changes.job_title_5 # 0
  \/ changes.company_name # 0
  \/ changes.heyreach_lead_id # 0

\* The record the create payload (directValues) describes: the name and the
\* LinkedIn URL; no other field of the row is in the payload.
directValues(row) ==
  [linkedin_url_6 |-> row.linkedin_url,
   full_name |-> row.full_name,
   job_title |-> 0,
   company_name |-> 0,
   heyreach_lead_id |-> 0,
   linkedin_messages |-> {}]

\* findPersonByLinkedInUrl: the cached result, else the result of the query;
\* a query that fails (exception or non-2xx) gives null (0).
findPersonByLinkedInUrl(key, outcome) ==
  IF recCache[key].recordId # 0 THEN recCache[key]
  ELSE IF outcome = "ok" /\ SinkQuery(key) # 0
    THEN [recordId |-> SinkQuery(key), record |-> sinkPeople[SinkQuery(key)]]
    ELSE NoPerson

\* A people loop that tries the same row again when its create was refused.
RowAfterCreateRetry(i, accepted) == IF accepted THEN i + 1 ELSE i

\* The index of the row the people loop works on after a create request
\* (accepted: ok += 1; refused or thrown: continue / catch).
RowAfterCreate(i, accepted) == i + 1

\* attioUpsertPeople (dry-run, or nothing to do) and ensureAttioObjectIdsLoaded.
\* AT_PEOPLE_UPSERT_URL is the single-record endpoint /v2/objects/people/records,
\* so the rows are worked on one by one (find, then patch or create).
UpsertPeopleBegin(outcome) ==
  /\ UNCHANGED unitVars
  /\ pc = "people"
  /\ IF Len(validatedPeople) = 0 \/ AT_DRY_RUN
       THEN /\ outcome = "ok"
            /\ pc' = "threads"
            /\ UNCHANGED <<objIds, pIdx, hist, faults>>
       ELSE /\ MayBe(outcome, cfg.sinkUp)
            /\ faults' = faults + Cost(outcome, cfg.sinkUp)
            /\ objIds' = (outcome = "ok")
            /\ pc' = IF outcome = "throw" THEN "report" ELSE "person_find"
            /\ pIdx' = 1
            /\ hist' = [hist EXCEPT !.reqFail = @ \/ outcome # "ok"]
  /\ UNCHANGED <<srcVars, sinkVars, wmFile, reportFile, cfg, syncState,
                 extractVars, validatedPeople, validatedThreads, idByUrl,
                 recCache, found, threadVars, leadsLeft, errors, exitCode,
                 runNo>>

\* STEP 1 of a row: look the person up, and decide between update and create.
PersonFind(outcome) ==
  /\ UNCHANGED unitVars
  /\ pc = "person_find"
  /\ LET row == validatedPeople[pIdx]
         key == row.linkedin_url
         existingPerson == findPersonByLinkedInUrl(key, outcome)
         queried == recCache[key].recordId = 0
         changes == detectChanges(extractCurrentValues(existingPerson.record), row)
     IN
     /\ IF queried
          THEN /\ MayBe(outcome, cfg.sinkUp)
               /\ faults' = faults + Cost(outcome, cfg.sinkUp)
          ELSE outcome = "ok" /\ faults' = faults
     /\ found' = existingPerson
     /\ hist' = [hist EXCEPT
                   !.reqFail = @ \/ outcome # "ok",
                   !.failed = IF outcome # "ok" THEN @ \cup {key} ELSE @]
     /\ IF existingPerson.recordId # 0
          THEN /\ recCache' = [recCache EXCEPT ![key] = existingPerson]
               /\ idByUrl' = [idByUrl EXCEPT ![key] = existingPerson.recordId]
               /\ IF AnyChange(changes)
                    THEN pc' = "person_patch" /\ pIdx' = pIdx
                    ELSE /\ pIdx' = pIdx + 1
                         /\ pc' = IF pIdx < Len(validatedPeople)
                                    THEN "person_find" ELSE "threads"
          ELSE /\ pc' = "person_create"
               /\ UNCHANGED <<recCache, idByUrl, pIdx>>
  /\ UNCHANGED <<srcVars, sinkVars, wmFile, reportFile, cfg, syncState,
                 extractVars, validatedPeople, validatedThreads, objIds,
                 threadVars, leadsLeft, errors, exitCode, runNo>>

\* updatePersonFields: load the object ids if they are missing, then PATCH the
\* changed fields.  With no object id the PATCH goes to a path the Sink does
\* not serve.
PersonPatch(load, outcome) ==
  /\ UNCHANGED unitVars
  /\ pc = "person_patch"
  /\ IF objIds THEN load = "ok" ELSE MayBe(load, cfg.sinkUp)
  /\ IF load # "ok" THEN outcome = load ELSE MayBe(outcome, cfg.sinkUp)
  /\ faults' = faults + Cost(IF load # "ok" THEN load ELSE outcome, cfg.sinkUp)
  /\ LET row == validatedPeople[pIdx]
         key == row.linkedin_url
         changes == detectChanges(extractCurrentValues(found.record), row)
         sent == load # "throw"
         updated == sent /\ outcome = "ok" /\ (objIds \/ load = "ok")
     IN
     /\ objIds' = (objIds \/ load = "ok")
     /\ sinkPeople' = IF updated THEN SinkPatch(sinkPeople, found.recordId, changes)
                      ELSE sinkPeople
     /\ hist' = [hist EXCEPT
                   !.writes[key] = IF sent THEN @ + 1 ELSE @,
                   !.nUpdated = IF updated THEN @ + 1 ELSE @,
                   !.reqFail = @ \/ ~updated,
                   !.failed = IF updated THEN @ ELSE @ \cup {key}]
     /\ pIdx' = pIdx + 1
     /\ pc' = IF pIdx < Len(validatedPeople) THEN "person_find" ELSE "threads"
  /\ UNCHANGED <<srcVars, sinkMsgs, sinkUnique, wmFile, reportFile, cfg,
                 syncState, extractVars, validatedPeople, validatedThreads,
                 idByUrl, recCache, found, threadVars, leadsLeft, errors,
                 exitCode, runNo>>

\* STEP 2 of a row: the person was not found, create it.
PersonCreate(outcome) ==
  /\ UNCHANGED unitVars
  /\ pc = "person_create"
  /\ MayBe(outcome, cfg.sinkUp)
  /\ faults' = faults + Cost(outcome, cfg.sinkUp)
  /\ LET row == validatedPeople[pIdx]
         key == row.linkedin_url
         held == SinkQuery(key) # 0
         accepted == outcome = "ok" /\ ~(sinkUnique /\ held)
         next == RowAfterCreate(pIdx, accepted)
     IN
     /\ sinkPeople' = IF accepted THEN Append(sinkPeople, directValues(row))
                      ELSE sinkPeople
     /\ idByUrl' = IF accepted
                     THEN [idByUrl EXCEPT ![key] = Len(sinkPeople) + 1]
                     ELSE idByUrl
     /\ hist' = [hist EXCEPT
                   !.creates[key] = @ + 1,
                   !.writes[key] = @ + 1,
                   !.dupCreate = @ \/ held,
                   !.nCreated = IF accepted THEN @ + 1 ELSE @,
                   !.reqFail = @ \/ ~accepted]
     /\ pIdx' = next
     /\ pc' = IF next <= Len(validatedPeople) THEN "person_find" ELSE "threads"
  /\ UNCHANGED <<srcVars, sinkMsgs, sinkUnique, wmFile, reportFile, cfg,
                 syncState, extractVars, validatedPeople, validatedThreads,
                 recCache, objIds, found, threadVars, leadsLeft, errors,
                 exitCode, runNo>>


\* ------------------------------------------------------ thread upsert
\* m.sender of the i-th message of a thread: the process wrote the odd ones.
SenderOf(i) == IF i % 2 = 1 THEN "ME" ELSE "LEAD"

\* A token built from the thread id alone.
message_uidThreadOnly(thread, i) == <<thread.thread_id, 0, "">>

\* `${thread_id}:${createdAt}:${sender}`
message_uid(thread, i) == <<thread.thread_id, i, SenderOf(i)>>

\* A thread loop that does not look at the Sink id of the person.
NextThreadAny(i) == i

RECURSIVE NextThread(_)
\* The next thread row, from index i on, whose person has a Sink id.
NextThread(i) ==
  IF i > Len(validatedThreads) THEN i
  ELSE IF idByUrl[validatedThreads[i].person_match_linkedin_url] # 0 THEN i
  ELSE NextThread(i + 1)

\* messagesByPerson.get(personId).push(...createdMessageIds)
TrackMessages(byPerson, personId, ids) ==
  IF ids = <<>> THEN byPerson
  ELSE IF \E i \in 1..Len(byPerson) : byPerson[i].personId = personId
    THEN [i \in 1..Len(byPerson) |->
            IF byPerson[i].personId = personId
              THEN [byPerson[i] EXCEPT !.messageIds = @ \o ids]
              ELSE byPerson[i]]
    ELSE Append(byPerson, [personId |-> personId, messageIds |-> ids])

\* A thread upsert that patches the back-references as soon as a thread has
\* given some.
AfterThreadLinkAtOnce(next, byPerson) ==
  IF byPerson # <<>> THEN "link"
  ELSE IF next <= Len(validatedThreads) THEN "msg_create"
  ELSE "report"

\* Where attioUpsertThreads goes on when a thread is over: Step 1 takes the
\* next thread; after the last one Step 2 starts, if there is a person to
\* patch.
AfterThread(next, byPerson) ==
  IF next <= Len(validatedThreads) THEN "msg_create"
  ELSE IF byPerson = <<>> THEN "report"
  ELSE "link"

\* attioUpsertThreads up to its first request.
UpsertThreadsBegin ==
  /\ UNCHANGED unitVars
  /\ pc = "threads"
  /\ IF \/ Len(validatedThreads) = 0
        \/ AT_DRY_RUN
        \/ NextThread(1) > Len(validatedThreads)
       THEN pc' = "report" /\ UNCHANGED <<tIdx, mIdx>>
       ELSE pc' = "msg_create" /\ tIdx' = NextThread(1) /\ mIdx' = 1
  /\ UNCHANGED <<srcVars, sinkVars, wmFile, reportFile, cfg, syncState,
                 extractVars, validatedPeople, validatedThreads, peopleVars,
                 lIdx, createdMessageIds, messagesByPerson, leadsLeft, errors,
                 exitCode, runNo, hist, faults>>

\* Step 1: the create request of one message.  A refused or failed request
\* throws, and the catch of the thread loop goes on with the next thread.
MessageCreate(outcome) ==
  /\ UNCHANGED unitVars
  /\ pc = "msg_create"
  /\ MayBe(outcome, cfg.sinkUp)
  /\ faults' = faults + Cost(outcome, cfg.sinkUp)
  /\ LET thread == validatedThreads[tIdx]
         li == thread.person_match_linkedin_url
         personId == idByUrl[li]
         uid == message_uid(thread, mIdx)
         accepted == outcome = "ok" /\ ~(sinkUnique /\ SinkHasUid(uid))
         ids == IF accepted THEN Append(createdMessageIds, Len(sinkMsgs) + 1)
                ELSE <<>>
         threadOver == ~accepted \/ mIdx = thread.total_messages
         byPerson == IF accepted /\ threadOver
                       THEN TrackMessages(messagesByPerson, personId, ids)
                       ELSE messagesByPerson
         next == NextThread(tIdx + 1)
     IN
     /\ sinkMsgs' = IF accepted
                      THEN Append(sinkMsgs, [message_uid |-> uid,
                                             conversation_id |-> thread.thread_id,
                                             person |-> personId])
                      ELSE sinkMsgs
     /\ messagesByPerson' = byPerson
     /\ hist' = [hist EXCEPT
                   !.msgReqs[thread.thread_id] = @ + 1,
                   !.writes[li] = @ + 1,
                   !.reqFail = @ \/ ~accepted]
     /\ IF ~threadOver
          THEN /\ mIdx' = mIdx + 1
               /\ createdMessageIds' = ids
               /\ UNCHANGED <<pc, tIdx, lIdx>>
          ELSE /\ createdMessageIds' = <<>>
               /\ mIdx' = 1
               /\ tIdx' = next
               /\ pc' = AfterThread(next, byPerson)
               /\ lIdx' = IF pc' = "msg_create" THEN lIdx ELSE 1
  /\ UNCHANGED <<srcVars, sinkPeople, sinkUnique, wmFile, reportFile, cfg,
                 syncState, extractVars, validatedPeople, validatedThreads,
                 peopleVars, leadsLeft, errors, exitCode, runNo>>

\* Step 2: patch one person with the references of the messages created for
\* it.  The response status is not looked at; an exception is logged.
LinkPatch(load, outcome) ==
  /\ UNCHANGED unitVars
  /\ pc = "link"
  /\ IF objIds THEN load = "ok" ELSE MayBe(load, cfg.sinkUp)
  /\ IF load # "ok" THEN outcome = load ELSE MayBe(outcome, cfg.sinkUp)
  /\ faults' = faults + Cost(IF load # "ok" THEN load ELSE outcome, cfg.sinkUp)
  /\ LET entry == messagesByPerson[lIdx]
         key == sinkPeople[entry.personId].linkedin_url_6
         sent == load # "throw"
         linked == sent /\ outcome = "ok" /\ (objIds \/ load = "ok")
         refs == {entry.messageIds[i] : i \in 1..Len(entry.messageIds)}
     IN
     /\ objIds' = (objIds \/ load = "ok")
     /\ sinkPeople' =
          IF linked
            THEN [sinkPeople EXCEPT ![entry.personId].linkedin_messages = @ \cup refs]
            ELSE sinkPeople
     /\ hist' = [hist EXCEPT
                   !.writes[key] = IF sent THEN @ + 1 ELSE @,
                   !.reqFail = @ \/ ~linked,
                   !.linkFail = @ \/ ~linked,
                   !.linkLogged = @ \/ load = "throw" \/ outcome = "throw"]
     /\ lIdx' = lIdx + 1
     /\ pc' = IF lIdx < Len(messagesByPerson) THEN "link" ELSE "report"
  /\ UNCHANGED <<srcVars, sinkMsgs, sinkUnique, wmFile, reportFile, cfg,
                 syncState, extractVars, validatedPeople, validatedThreads,
                 idByUrl, recCache, pIdx, found, tIdx, mIdx, createdMessageIds,
                 messagesByPerson, leadsLeft, errors, exitCode, runNo>>

\* The report of the inbox flow, and the return of main().
WriteReport ==
  /\ UNCHANGED unitVars
  /\ pc = "report"
  /\ reportFile' = runNo
  /\ pc' = "exited"
  /\ exitCode' = 0
  /\ UNCHANGED <<srcVars, sinkVars, wmFile, memVars, runNo, hist, faults>>

\* ----------------------------------------------------------- per-lead flow
\* 1) fetchLeadsFromList, and 2) the people rows of the leads that have a
\* LinkedIn URL.  A failure is recorded in errors and leaves no lead.
FetchLeads(outcome) ==
  /\ UNCHANGED unitVars
  /\ pc = "leads"
  /\ outcome \in {"ok", "throw"}
  /\ IF cfg.leadsUrl
       THEN /\ MayBe(outcome, cfg.srcUp)
            /\ faults' = faults + Cost(outcome, cfg.srcUp)
       ELSE outcome = "throw" /\ faults' = faults
  /\ LET ok == outcome = "ok" /\ cfg.leadsUrl
         leads == {t \in Threads : msgCount[t] > 0 /\ ProfileOf(t) # 0}
         rows == SelectSeq(AllThreads, LAMBDA t : t \in leads)
     IN
     /\ leadsLeft' = IF ok THEN leads ELSE {}
     /\ peopleRows' = IF ok
                        THEN [i \in 1..Len(rows) |->
                                buildPeopleRowFromCorrespondent(rows[i])]
                        ELSE <<>>
     /\ errors' = IF ok THEN errors
                  ELSE errors \cup {[stage |-> "fetchLeads", id |-> 0]}
     /\ hist' = [hist EXCEPT !.reqFail = @ \/ ~ok, !.srcOk = @ \/ ok]
  /\ threadRows' = <<>>
  /\ messageRows' = <<>>
  /\ pc' = "lead_convs"
  /\ UNCHANGED <<srcVars, sinkVars, wmFile, reportFile, cfg, syncState, batch,
                 peopleByUrl, validatedPeople, validatedThreads, peopleVars,
                 threadVars, exitCode, runNo>>

\* 3) fetchConversationsForLead of one lead; the leads are worked on by up to
\* CONCURRENCY tasks, in any order.
FetchConversationsForLead(lead, outcome) ==
  /\ UNCHANGED unitVars
  /\ pc = "lead_convs"
  /\ lead \in leadsLeft
  /\ outcome \in {"ok", "throw"}
  /\ MayBe(outcome, cfg.srcUp)
  /\ faults' = faults + Cost(outcome, cfg.srcUp)
  /\ LET ok == outcome = "ok" IN
     /\ messageRows' = IF ok THEN messageRows \o MessagesOf(lead) ELSE messageRows
     /\ errors' = IF ok THEN errors
                  ELSE errors \cup {[stage |-> "fetchConversationsForLead",
                                     id |-> lead]}
     /\ hist' = [hist EXCEPT !.reqFail = @ \/ ~ok, !.srcOk = @ \/ ok]
  /\ leadsLeft' = leadsLeft \ {lead}
  /\ UNCHANGED <<srcVars, sinkVars, wmFile, reportFile, pc, cfg, syncState,
                 batch, peopleByUrl, peopleRows, threadRows, validatedPeople,
                 validatedThreads, peopleVars, threadVars, exitCode, runNo>>

\* A per-lead flow that writes its report only when no error was recorded.
WriteLeadOutputsUnlessErrors ==
  /\ UNCHANGED unitVars
  /\ pc = "lead_convs"
  /\ leadsLeft = {}
  /\ reportFile' = IF errors = {} THEN runNo ELSE reportFile
  /\ pc' = "exited"
  /\ exitCode' = 0
  /\ UNCHANGED <<srcVars, sinkVars, wmFile, memVars, runNo, hist, faults>>

\* 4) the CSV files and 5) the report of the per-lead flow; main() returns.
WriteLeadOutputs ==
  /\ UNCHANGED unitVars
  /\ pc = "lead_convs"
  /\ leadsLeft = {}
  /\ reportFile' = runNo
  /\ pc' = "exited"
  /\ exitCode' = 0
  /\ UNCHANGED <<srcVars, sinkVars, wmFile, memVars, runNo, hist, faults>>

\* ------------------------------------------------------- process lifetime
ResetMemory ==
  /\ cfg' = NoEnv
  /\ syncState' = EmptySyncState
  /\ batch' = [b \in Batches |-> [done |-> FALSE, offset |-> 0, page |-> 0]]
  /\ peopleByUrl' = {}
  /\ peopleRows' = <<>>
  /\ threadRows' = <<>>
  /\ messageRows' = <<>>
  /\ validatedPeople' = <<>>
  /\ validatedThreads' = <<>>
  /\ idByUrl' = [k \in Keys |-> 0]
  /\ recCache' = [k \in Keys |-> NoPerson]
  /\ objIds' = FALSE
  /\ pIdx' = 0
  /\ found' = NoPerson
  /\ tIdx' = 0
  /\ mIdx' = 0
  /\ lIdx' = 0
  /\ leadsLeft' = {}
  /\ createdMessageIds' = <<>>
  /\ messagesByPerson' = <<>>
  /\ errors' = {}

\* The process is killed, or the machine stops, at any point of a run.
Crash ==
  /\ UNCHANGED unitVars
  /\ pc \notin {"idle", "exited"}
  /\ faults < MaxFaults
  /\ faults' = faults + 1
  /\ pc' = "idle"
  /\ exitCode' = 137
  /\ ResetMemory
  /\ hist' = NoHist(FALSE)
  /\ UNCHANGED <<srcVars, sinkVars, wmFile, reportFile, runNo>>

\* The process that returned from main(), or was ended by a guard, is gone.
ProcessEnd ==
  /\ UNCHANGED unitVars
  /\ pc = "exited"
  /\ pc' = "idle"
  /\ ResetMemory
  /\ hist' = NoHist(/\ exitCode = 0
                    /\ hist.flow = "inbox"
                    /\ ~cfg.dry
                    /\ ~hist.reqFail)
  /\ UNCHANGED <<srcVars, sinkVars, wmFile, reportFile, exitCode, runNo, faults>>

Next ==
  \/ \E t \in Threads : SourceNewMessage(t)
  \/ \E env \in Envs : StartRun(env)
  \/ \E b \in Batches : PageArrives(b)
  \/ \E b \in Batches : PageFetchFails(b)
  \/ WriteOutputs
  \/ WatermarkOpen
  \/ WatermarkWrite
  \/ \E o \in Outcomes : UpsertPeopleBegin(o)
  \/ \E o \in Outcomes : PersonFind(o)
  \/ \E l, o \in Outcomes : PersonPatch(l, o)
  \/ \E o \in Outcomes : PersonCreate(o)
  \/ UpsertThreadsBegin
  \/ \E o \in Outcomes : MessageCreate(o)
  \/ \E l, o \in Outcomes : LinkPatch(l, o)
  \/ WriteReport
  \/ \E o \in Outcomes : FetchLeads(o)
  \/ \E t \in Threads, o \in Outcomes : FetchConversationsForLead(t, o)
  \/ WriteLeadOutputs
  \/ Crash
  \/ ProcessEnd

Spec == Init /\ [][Next]_vars

\* ============================================================ properties
\* The run in progress passed the startup guards.
NonFatal == hist.flow # "none"

\* The watermark file holds the complete content written by this run.
WatermarkSaved == wmFile.st = "ok" /\ wmFile.data.last_sync = runNo

\* The rows the extraction holds for conversation t.
RowsOf(t) ==
  {i \in DOMAIN peopleRows : peopleRows[i].conv = t}
    \cup {i \in DOMAIN threadRows : threadRows[i].thread_id = t}
    \cup {i \in DOMAIN messageRows : messageRows[i].thread_id = t}

\* Conversation t is not newer than the watermark this inbox run loaded.
SkippedByWatermark(t) ==
  /\ hist.flow = "inbox"
  /\ hist.loaded.last_sync # 0
  /\ ~cfg.force
  /\ msgCount[t] > 0
  /\ hist.loaded.threads[t].has
  /\ hist.loaded.threads[t].last_message_at >= msgCount[t]

\* ---------------------------------------------------------------------- C1
\* C1: within one run at most one person-create request is issued for every
\* identity key, whatever the interleaving of the extraction workers and
\* however many of them meet the key.
C1_AtMostOneCreatePerKey == \A k \in Keys : hist.creates[k] <= 1

\* Two workers met the same key in one run (its rows were extracted twice)
\* and the one create request for it has been issued.
C1_Witness ==
  \E k \in Keys :
    /\ hist.creates[k] = 1
    /\ Cardinality({i \in DOMAIN threadRows :
                      threadRows[i].person_match_linkedin_url = k}) >= 2
    /\ \A b \in Batches : batch[b].page >= 1

\* ---------------------------------------------------------------------- C2
\* C2: a person-create request is issued for a key only when the Sink holds
\* no person record with that key, and the Sink never holds two person
\* records with the same key.
C2_CreateOnlyWhenAbsent ==
  /\ ~hist.dupCreate
  /\ \A i, j \in DOMAIN sinkPeople :
       sinkPeople[i].linkedin_url_6 = sinkPeople[j].linkedin_url_6 => i = j

\* ---------------------------------------------------------------------- C3
\* C3: a run that follows a complete run on an unchanged Source, and in which
\* no request fails, creates no person and updates no person, with or
\* without the force flag.
C3_SecondRunIdempotent ==
  (pc = "exited" /\ hist.prevClean /\ hist.flow = "inbox" /\ ~hist.reqFail)
    => (hist.nCreated = 0 /\ hist.nUpdated = 0)

\* ---------------------------------------------------------------------- C4
\* C4: once the query or the patch of a person has failed in a run, no
\* create and no other write request is issued for that person in the run.
C4_FailedPersonSkipped ==
  [][\A k \in Keys :
       k \in hist.failed => hist'.writes[k] <= hist.writes[k]]_vars

\* ---------------------------------------------------------------------- C5
\* C5 as stated: in a run without the force flag a conversation is skipped
\* exactly when a watermark record exists for it whose last_message_at is >=
\* the observed lastMessageAt.
C5_SkipIffRecordNotOlder ==
  ~cfg.force =>
    \A i \in DOMAIN hist.decisions :
      LET d == hist.decisions[i] IN
      d.skipped <=> (d.had /\ d.stored >= d.lastAt)

\* C5 amended: a conversation is skipped exactly when the run has no force
\* flag, the watermark it loaded has a last_sync, and the watermark in memory
\* (loaded, or set earlier in this run) has a record for the conversation
\* whose last_message_at is >= the observed lastMessageAt.
C5_SkipIffIncrementalAndNotOlder ==
  \A i \in DOMAIN hist.decisions :
    LET d == hist.decisions[i] IN
    d.skipped <=>
      (~cfg.force /\ hist.loaded.last_sync # 0 /\ d.had /\ d.stored >= d.lastAt)

\* A conversation whose activity is unchanged was skipped, and on the same
\* page one with a newer message was processed.
C5_Witness ==
  /\ \E i \in DOMAIN hist.decisions :
       hist.decisions[i].skipped
         /\ hist.decisions[i].stored = hist.decisions[i].lastAt
  /\ \E i \in DOMAIN hist.decisions :
       ~hist.decisions[i].skipped /\ hist.decisions[i].had
         /\ hist.decisions[i].stored < hist.decisions[i].lastAt

C7_WatermarkAfterSinkWrites ==
  [][(\E k \in Keys : hist'.writes[k] > hist.writes[k]) => ~WatermarkSaved]_vars

\* ---------------------------------------------------------------------- C8
\* C8: whenever no process runs (after a return or a crash) the watermark
\* file is absent or complete, so the next run never reads a partial file.
C8_WatermarkNeverPartial == pc = "idle" => wmFile.st # "partial"

C10_ExitCodeIffFatal ==
  pc = "exited" =>
    (exitCode # 0 <=> (~NonFatal \/ ~cfg.srcUp))

\* --------------------------------------------------------------------- C11
\* The number of Sink messages that hold the token of message i of thread t.
Stored(t, i) ==
  Cardinality({j \in DOMAIN sinkMsgs :
                 sinkMsgs[j].message_uid = message_uid([thread_id |-> t], i)})

C12_NewMessagesAddedOnce ==
  (pc = "exited" /\ hist.flow = "inbox" /\ ~cfg.dry /\ cfg.sinkUp /\ faults = 0)
    => \A t \in Threads :
         (/\ hist.loaded.threads[t].has
          /\ hist.loaded.threads[t].last_message_at < msgCount[t]
          /\ \A i \in 1..hist.loaded.threads[t].last_message_at :
               Stored(t, i) >= 1)
           => \A i \in 1..msgCount[t] : Stored(t, i) = 1

\* ================================================ functions on their own
\* main() is not running: the state of the engine while one function is
\* studied on its own.
MainOff ==
  /\ msgCount = [t \in Threads |-> 0]
  /\ sinkPeople = <<>>
  /\ sinkMsgs = <<>>
  /\ sinkUnique = TRUE
  /\ wmFile = NoFile
  /\ reportFile = 0
  /\ pc = "idle"
  /\ MemoryInit
  /\ exitCode = -1
  /\ runNo = 0
  /\ faults = 0
  /\ hist = NoHist(FALSE)

\* ------------------------------------------------------------ paging loops
\* Bounds: the size of a Source collection, the page requests followed in
\* one loop, the largest HR_INBOX_MAX_PAGES tried.
MaxItems == 5
MaxReqs == 6
MaxPageCap == 3

\* HR_PAGE_LIMIT of the per-lead flow, as set for the modelled deployment.
PAGE_LIMIT == 2

\* How the Source pages a collection for fetchLeadsFromList and
\* fetchConversationsForLead: by page number without any flag, with hasMore,
\* with a cursor, with a cursor it repeats, with hasMore always set.
Modes == {"page", "hasMore", "cursor", "cursorRepeats", "hasMoreStuck"}

Ceil(a, b) == (a + b - 1) \div b

\* The Source's answer to the inbox request (limit, offset): totalCount is 0
\* when the body has neither totalCount nor count.
InboxResponse(n, totalGiven, limit, offset) ==
  [totalCount |-> IF totalGiven THEN n ELSE 0,
   count |-> IF offset >= n THEN 0 ELSE Min(limit, n - offset)]

\* The inbox loop after one page: the new offset, yielded count and whether
\* the loop breaks.
InboxAfterPage(p, resp) ==
  IF resp.count = 0
    THEN [p EXCEPT !.requests = @ + 1, !.done = TRUE]
    ELSE [p EXCEPT
            !.requests = @ + 1,
            !.yielded = @ + resp.count,
            !.offset = @ + resp.count,
            !.page = @ + 1,
            !.done = \/ p.offset + resp.count >= resp.totalCount
                     \/ p.page + 1 >= p.maxPages]

\* The Source's answer to a leads/conversations request (page, cursor): the
\* items, the next cursor (0 is none) and hasMore.
ListResponse(n, mode, limit, page, cursor) ==
  LET from == IF mode = "cursor" /\ cursor # 0 THEN cursor
              ELSE (page - 1) * limit
      count == IF from >= n THEN 0 ELSE Min(limit, n - from)
      more == from + count < n
  IN [count |-> count,
      nextCursor |-> CASE mode = "cursor" -> IF more THEN from + count ELSE 0
                       [] mode = "cursorRepeats" -> 1
                       [] OTHER -> 0,
      hasMore |-> CASE mode = "hasMore" -> more
                    [] mode = "hasMoreStuck" -> TRUE
                    [] OTHER -> FALSE]

\* The loop of fetchLeadsFromList / fetchConversationsForLead after one page.
ListAfterPage(p, resp) ==
  LET q == [p EXCEPT !.requests = @ + 1, !.yielded = @ + resp.count,
                     !.cursor = resp.nextCursor]
  IN IF resp.nextCursor # 0 THEN q
     ELSE IF resp.hasMore THEN [q EXCEPT !.page = @ + 1]
     ELSE IF resp.count = PAGE_LIMIT THEN [q EXCEPT !.page = @ + 1]
     ELSE [q EXCEPT !.done = TRUE]

PagingInit ==
  /\ MainOff
  /\ gate = Off /\ rt = Off /\ pr = Off /\ dl = Off /\ ky = Off
  /\ nz = Off /\ lim = Off /\ wmk = Off /\ bk = Off /\ oi = Off
  /\ \E kind \in {"inbox", "leads", "convs"}, n \in 0..MaxItems,
        totalGiven \in BOOLEAN, maxPages \in 1..MaxPageCap, mode \in Modes :
       /\ kind = "inbox" => mode = "page"
       /\ kind # "inbox" => (totalGiven /\ maxPages = 1)
       /\ pg = [st |-> "on", kind |-> kind, n |-> n, totalGiven |-> totalGiven,
                maxPages |-> maxPages, mode |-> mode,
                offset |-> 0, page |-> IF kind = "inbox" THEN 0 ELSE 1,
                cursor |-> 0, requests |-> 0, yielded |-> 0, done |-> FALSE]

\* One page of the inbox loop of a filter batch.
InboxPage ==
  /\ pg.kind = "inbox"
  /\ ~pg.done
  /\ pg' = InboxAfterPage(pg, InboxResponse(pg.n, pg.totalGiven, INBOX_LIMIT,
                                            pg.offset))
  /\ UNCHANGED <<mainVars, gate, rt, pr, dl, ky, nz, lim, wmk, bk, oi>>

\* One page of fetchLeadsFromList or fetchConversationsForLead.
ListPage ==
  /\ pg.kind \in {"leads", "convs"}
  /\ ~pg.done
  /\ pg.requests < MaxReqs
  /\ pg' = ListAfterPage(pg, ListResponse(pg.n, pg.mode, PAGE_LIMIT, pg.page,
                                          pg.cursor))
  /\ UNCHANGED <<mainVars, gate, rt, pr, dl, ky, nz, lim, wmk, bk, oi>>

PagingNext == InboxPage \/ ListPage

SpecPaging == PagingInit /\ [][PagingNext]_vars

\* --------------------------------------------------------------------- C13
\* The page requests the stated stop rule makes for a collection of n items
\* and page size L: with a total until the offset reaches it, without one
\* until a page has fewer than L items.
ExpectedRequests(n, totalGiven, L) ==
  IF totalGiven THEN (IF n = 0 THEN 1 ELSE Ceil(n, L)) ELSE (n \div L) + 1

\* C13: the inbox loop of one filter batch stops exactly by the stated rule,
\* so it has then requested ExpectedRequests pages and yielded every item
\* (pages of L, L and fewer than L: 3 requests, all items).
C13_InboxStopsByRule ==
  (pg.kind = "inbox" /\ pg.done) =>
    /\ pg.yielded = pg.n
    /\ pg.requests = ExpectedRequests(pg.n, pg.totalGiven, INBOX_LIMIT)

\* --------------------------------------------------------------------- C14
\* C14: every paging loop is finite: it never issues more page requests
\* than twice the pages of the collection (once by cursor, once by page
\* number), plus one for the page that ends it.
C14_PagingFinite ==
  pg.st = "on" =>
    pg.requests
      <= 2 * Ceil(pg.n, IF pg.kind = "inbox" THEN INBOX_LIMIT ELSE PAGE_LIMIT) + 1

\* ------------------------------------------------------------ pacing gate
\* Bounds: concurrent callers of getWithRetry, requests of each caller, and
\* the time followed.
MaxCallers == 3
ReqsPerCaller == 2
MaxClock == 8

\* HR_MAX_REQS_PER_2S as set for the modelled deployment, and the 2000 ms
\* window in units of a third of a second.
MAX_REQS_PER_2S == 3
WINDOW_MS == 6

Max(a, b) == IF a > b THEN a ELSE b

\* Math.ceil(2000 / Math.max(1, Math.min(14, MAX_REQS_PER_2S)))
PER_REQ_DELAY_MS == Ceil(WINDOW_MS, Max(1, Min(14, MAX_REQS_PER_2S)))

Callers == 1..MaxCallers

\* A request starts now: the count, the first and the last start, and the
\* smallest distance between two starts seen so far.
StartRequest(g) ==
  [g EXCEPT
     !.count = @ + 1,
     !.first = IF g.count = 0 THEN g.clock ELSE @,
     !.last = g.clock,
     !.minGap = IF g.count = 0 THEN @ ELSE Min(@, g.clock - g.last)]

GateInit ==
  /\ MainOff
  /\ pg = Off /\ rt = Off /\ pr = Off /\ dl = Off /\ ky = Off
  /\ nz = Off /\ lim = Off /\ wmk = Off /\ bk = Off /\ oi = Off
  /\ \E k \in Callers :
       gate = [st |-> "on", clock |-> 0, nextAllowedAtMs |-> 0,
               pc |-> [c \in Callers |-> "idle"],
               now |-> [c \in Callers |-> 0],
               wake |-> [c \in Callers |-> 0],
               left |-> [c \in Callers |-> IF c <= k THEN ReqsPerCaller ELSE 0],
               callers |-> k,
               count |-> 0, first |-> 0, last |-> 0, minGap |-> MaxClock + 1]

\* rateLimitWait up to its await: now is read, and with nothing to wait for
\* nextAllowedAtMs is advanced and the request starts at once.
GateEnter(c) ==
  /\ gate.st = "on"
  /\ gate.pc[c] = "idle"
  /\ gate.left[c] > 0
  /\ LET wait == Max(0, gate.nextAllowedAtMs - gate.clock) IN
     gate' =
       IF wait > 0
         THEN [gate EXCEPT !.pc[c] = "sleeping", !.now[c] = gate.clock,
                           !.wake[c] = gate.clock + wait]
         ELSE [StartRequest(gate) EXCEPT
                 !.left[c] = @ - 1,
                 !.nextAllowedAtMs =
                   Max(gate.clock, gate.nextAllowedAtMs) + PER_REQ_DELAY_MS]
  /\ UNCHANGED <<mainVars, pg, rt, pr, dl, ky, nz, lim, wmk, bk, oi>>

\* The sleep is over: nextAllowedAtMs is advanced
\* from the now read before the sleep, and the request starts.
GateWake(c) ==
  /\ gate.st = "on"
  /\ gate.pc[c] = "sleeping"
  /\ gate.clock >= gate.wake[c]
  /\ gate' = [StartRequest(gate) EXCEPT
                !.pc[c] = "idle",
                !.now[c] = 0,
                !.wake[c] = 0,
                !.left[c] = @ - 1,
                !.nextAllowedAtMs =
                  Max(gate.now[c], gate.nextAllowedAtMs) + PER_REQ_DELAY_MS]
  /\ UNCHANGED <<mainVars, pg, rt, pr, dl, ky, nz, lim, wmk, bk, oi>>

\* Time passes; a timer that is due fires before the clock moves on.
GateTick ==
  /\ gate.st = "on"
  /\ gate.clock < MaxClock
  /\ \A c \in Callers : gate.pc[c] = "sleeping" => gate.clock < gate.wake[c]
  /\ gate' = [gate EXCEPT !.clock = @ + 1]
  /\ UNCHANGED <<mainVars, pg, rt, pr, dl, ky, nz, lim, wmk, bk, oi>>

GateNext ==
  \/ \E c \in Callers : GateEnter(c)
  \/ \E c \in Callers : GateWake(c)
  \/ GateTick

SpecGate == GateInit /\ [][GateNext]_vars

\* --------------------------------------------------------------------- C15
\* C15: for any number of concurrent callers and any interleaving, any two
\* Source requests start at least PER_REQ_DELAY_MS apart.
C15_RequestsSpaced ==
  (gate.st = "on" /\ gate.count >= 2) => gate.minGap >= PER_REQ_DELAY_MS

\* --------------------------------------------------------------------- C16
\* C16: with a budget of B requests per window, the first N requests take
\* at least (ceil(N/B) - 1) windows from the first to the last start (B = 3,
\* N = 9: two windows, 4 seconds).
C16_WindowBudget ==
  (gate.st = "on" /\ gate.count >= 1) =>
    gate.last - gate.first
      >= WINDOW_MS * (Ceil(gate.count, MAX_REQS_PER_2S) - 1)

\* ---------------------------------------------------------- getWithRetry
MAX_RETRIES == 3
RETRY_BASE_MS == 500

\* The five authVariants, tried in order.
AUTH_VARIANTS == 5

\* What one request can give: 0 stands for a request that throws (network
\* failure, no response), the others are HTTP statuses, which axiosClient
\* resolves whatever they are (validateStatus: () => true).
Statuses == {0, 200, 302, 400, 401, 404, 429, 503}

Is2xxOr3xx(s) == s >= 200 /\ s < 400
Is2xx(s) == s >= 200 /\ s < 300

IsRedirectLike(s) == (s >= 300 /\ s < 400) \/ s = 404 \/ s = 405

\* The call ends by returning resp / postResp, or by throwing.
Returned(r, s) == [r EXCEPT !.pc = "done", !.result = "returned", !.returned = s]
Thrown(r) == [r EXCEPT !.pc = "done", !.result = "thrown"]

\* The outer for: next attempt, or "Exhausted retries".
NextAttempt(r) ==
  IF r.attempt < MAX_RETRIES
    THEN [r EXCEPT !.attempt = @ + 1, !.i = 1, !.pc = "get"]
    ELSE Thrown(r)

\* The inner for: next auth variant, or out of the inner loop.
NextVariant(r) ==
  IF r.i < AUTH_VARIANTS
    THEN [r EXCEPT !.i = @ + 1, !.pc = "get"]
    ELSE NextAttempt(r)

RetryInit ==
  /\ MainOff
  /\ pg = Off /\ gate = Off /\ pr = Off /\ dl = Off /\ ky = Off
  /\ nz = Off /\ lim = Off /\ wmk = Off /\ bk = Off /\ oi = Off
  /\ \E b \in BOOLEAN :
       rt = [st |-> "on", hasPost |-> b, attempt |-> 0, i |-> 1, pc |-> "get",
             status |-> 0, result |-> "none", returned |-> 0,
             waits |-> << >>, requests |-> 0]

\* One GET and the decision taken on its outcome.
RetryGet ==
  /\ rt.st = "on"
  /\ rt.pc = "get"
  /\ \E s \in Statuses :
       LET r == [rt EXCEPT !.status = s, !.requests = @ + 1] IN
       rt' =
         IF s = 0
           THEN IF r.attempt < MAX_RETRIES
                  THEN [r EXCEPT !.pc = "sleepContinue"]
                  ELSE IF r.hasPost
                         THEN [r EXCEPT !.pc = "postAfterThrow"]
                         ELSE Thrown(r)
         ELSE IF Is2xx(s)
           THEN Returned(r, s)
         ELSE IF IsRedirectLike(s)
           THEN IF r.hasPost
                  THEN [r EXCEPT !.pc = "postAfterStatus"]
                  ELSE NextVariant(r)
         ELSE IF s = 401 \/ s = 403
           THEN NextVariant(r)
         ELSE IF (s = 429 \/ s >= 500) /\ r.attempt < MAX_RETRIES
           THEN [r EXCEPT !.pc = "sleepBreak"]
         ELSE Thrown(r)
  /\ UNCHANGED <<mainVars, pg, gate, pr, dl, ky, nz, lim, wmk, bk, oi>>

\* The POST fallback on the same URL.
RetryPost ==
  /\ rt.st = "on"
  /\ rt.pc \in {"postAfterThrow", "postAfterStatus"}
  /\ \E s \in Statuses :
       LET r == [rt EXCEPT !.requests = @ + 1] IN
       rt' =
         IF s # 0 /\ Is2xx(s)
           THEN Returned(r, s)
         ELSE IF rt.pc = "postAfterThrow"
           THEN Thrown(r)
         ELSE NextVariant(r)
  /\ UNCHANGED <<mainVars, pg, gate, pr, dl, ky, nz, lim, wmk, bk, oi>>

\* The backoff wait, of base delay RETRY_BASE_MS * 2^attempt before jitter:
\* followed by continue after a request that threw, by break after 429/5xx.
RetrySleep ==
  /\ rt.st = "on"
  /\ rt.pc \in {"sleepContinue", "sleepBreak"}
  /\ LET r == [rt EXCEPT !.waits = Append(@, RETRY_BASE_MS * 2^rt.attempt)] IN
     rt' = IF rt.pc = "sleepContinue" THEN NextVariant(r) ELSE NextAttempt(r)
  /\ UNCHANGED <<mainVars, pg, gate, pr, dl, ky, nz, lim, wmk, bk, oi>>

RetryNext == RetryGet \/ RetryPost \/ RetrySleep

SpecRetry == RetryInit /\ [][RetryNext]_vars

\* --------------------------------------------------------------------- C17
\* C17: getWithRetry never swallows a failure. A call makes boundedly many
\* requests, it ends only by returning a response whose status is 2xx or by
\* throwing, what it returns is never a non-2xx response, and a 429, a 5xx
\* or a network failure on the final attempt ends the call by a throw
\* unless the POST fallback answered 2xx.
C17_ReturnsOkOrThrows ==
  rt.st = "on" =>
    /\ rt.requests <= 2 * AUTH_VARIANTS * (MAX_RETRIES + 1)
    /\ rt.pc = "done" <=> rt.result \in {"returned", "thrown"}
    /\ rt.result = "returned" => rt.returned \in 200..299
    /\ rt.result = "thrown" => rt.returned = 0
    /\ (rt.pc = "done" /\ rt.attempt = MAX_RETRIES
          /\ rt.status \in {0, 429, 503} /\ rt.returned = 0)
         => rt.result = "thrown"

C17_Witness ==
  /\ rt.st = "on"
  /\ rt.pc = "done"
  /\ rt.result = "thrown"
  /\ rt.attempt = MAX_RETRIES
  /\ rt.status = 503
  /\ Len(rt.waits) = MAX_RETRIES

\* --------------------------------------------------------------------- C18
\* C18: one call makes at most MAX_RETRIES backoff waits, and the k-th wait
\* has base delay RETRY_BASE_MS * 2^(k-1).
C18_BoundedExponentialSchedule ==
  rt.st = "on" =>
    /\ Len(rt.waits) <= MAX_RETRIES
    /\ \A k \in 1..Len(rt.waits) : rt.waits[k] = RETRY_BASE_MS * 2^(k - 1)

\* --------------------------------------------------------- probeEndpoints
\* The sizes of hostBases, prefixes, leadPaths, authVariants and methods.
HOST_BASES == 3
PREFIXES == 6
LEAD_PATHS == 3
PROBE_AUTH_VARIANTS == 3
METHODS == 2

\* What tryOnce gives: a status (0 for a request that threw without a
\* response) and whether the body is an object with a list-like field.
ProbeStatuses == {0, 200, 401, 404}
BodyShapes == {"list", "other"}

FirstCandidate == [base |-> 1, prefix |-> 1, path |-> 1, headers |-> 1, method |-> 1]

\* The position of a candidate in the order of the five nested loops.
Position(c) ==
  ((((c.base - 1) * PREFIXES + (c.prefix - 1)) * LEAD_PATHS + (c.path - 1))
     * PROBE_AUTH_VARIANTS + (c.headers - 1)) * METHODS + c.method

Candidates == HOST_BASES * PREFIXES * LEAD_PATHS * PROBE_AUTH_VARIANTS * METHODS

\* The next candidate of the nested loops: methods innermost, then header
\* schemes, paths, prefixes and bases.
NextCandidate(c) ==
  IF c.method < METHODS THEN [c EXCEPT !.method = @ + 1]
  ELSE IF c.headers < PROBE_AUTH_VARIANTS
    THEN [c EXCEPT !.method = 1, !.headers = @ + 1]
  ELSE IF c.path < LEAD_PATHS
    THEN [c EXCEPT !.method = 1, !.headers = 1, !.path = @ + 1]
  ELSE IF c.prefix < PREFIXES
    THEN [c EXCEPT !.method = 1, !.headers = 1, !.path = 1, !.prefix = @ + 1]
  ELSE [c EXCEPT !.method = 1, !.headers = 1, !.path = 1, !.prefix = 1,
                 !.base = @ + 1]

ProbeInit ==
  /\ MainOff
  /\ pg = Off /\ gate = Off /\ rt = Off /\ dl = Off /\ ky = Off
  /\ nz = Off /\ lim = Off /\ wmk = Off /\ bk = Off /\ oi = Off
  /\ pr = [st |-> "on", pc |-> "try", cand |-> FirstCandidate, requests |-> 0,
           status |-> 0, shape |-> "other", result |-> "none"]

\* tryOnce on the current candidate: a 2xx status ends the probe with this
\* candidate, anything else moves on to the next one.
ProbeTry ==
  /\ pr.st = "on"
  /\ pr.pc = "try"
  /\ \E s \in ProbeStatuses, b \in BodyShapes :
       LET r == [pr EXCEPT !.requests = @ + 1, !.status = s, !.shape = b] IN
       pr' =
         IF s >= 200 /\ s < 300
           THEN [r EXCEPT !.pc = "done", !.result = "found"]
         ELSE IF Position(pr.cand) < Candidates
           THEN [r EXCEPT !.cand = NextCandidate(pr.cand)]
         ELSE [r EXCEPT !.pc = "exhausted"]
  /\ UNCHANGED <<mainVars, pg, gate, rt, dl, ky, nz, lim, wmk, bk, oi>>

\* No working endpoint detected: return null.
ProbeNotFound ==
  /\ pr.st = "on"
  /\ pr.pc = "exhausted"
  /\ pr' = [pr EXCEPT !.pc = "done", !.result = "null"]
  /\ UNCHANGED <<mainVars, pg, gate, rt, dl, ky, nz, lim, wmk, bk, oi>>

ProbeNext == ProbeTry \/ ProbeNotFound

SpecProbe == ProbeInit /\ [][ProbeNext]_vars

\* --------------------------------------------------------------------- C19
\* C19: the endpoint resolver tries the candidates in the fixed order of the
\* matrix, the candidate it returns answered 2xx with a body of the expected
\* shape and is the last one requested, and failure is reported only after
\* every candidate was tried.
C19_FirstWorkingCandidate ==
  pr.st = "on" =>
    /\ pr.requests \in {Position(pr.cand) - 1, Position(pr.cand)}
    /\ pr.result = "found" =>
         /\ pr.status \in 200..299
         /\ pr.shape = "list"
         /\ pr.requests = Position(pr.cand)
    /\ pr.result = "null" => pr.requests = Candidates

\* ------------------------------------------- detectChanges on its own
\* Bound: the values a field takes, 0 for an empty or missing value.
MaxValue == 2
FieldValues == 0..MaxValue

\* Bound: the runs that reconcile the same record, one after the other.
MaxDeltaRuns == 2

DeltaInit ==
  /\ MainOff
  /\ pg = Off /\ gate = Off /\ rt = Off /\ pr = Off /\ ky = Off
  /\ nz = Off /\ lim = Off /\ wmk = Off /\ bk = Off /\ oi = Off
  /\ \E sn \in 1..MaxValue, st, sc, sh \in FieldValues,
        rn, rj, rc, rh \in FieldValues :
       LET record == [linkedin_url_6 |-> 1, full_name |-> sn, job_title |-> st,
                      company_name |-> sc, heyreach_lead_id |-> sh,
                      linkedin_messages |-> {}]
           row == [linkedin_url |-> 1, full_name |-> rn, job_title |-> rj,
                   company_name |-> rc, heyreach_lead_id |-> rh]
       IN dl = [st |-> "on", pc |-> "detect", before |-> record,
                people |-> <<record>>, row |-> row,
                changes |-> [name |-> 0, job_title_5 |-> 0, company_name |-> 0,
                            heyreach_lead_id |-> 0],
                requests |-> 0, result |-> "none", run |-> 1, idSet |-> FALSE]

\* The existing person was found: its current values are compared with the
\* row.
DeltaDetect ==
  /\ dl.st = "on"
  /\ dl.pc = "detect"
  /\ LET changes == detectChanges(extractCurrentValues(dl.people[1]), dl.row) IN
     dl' = [dl EXCEPT !.changes = changes,
                      !.pc = IF AnyChange(changes) THEN "patch" ELSE "same"]
  /\ UNCHANGED <<mainVars, pg, gate, rt, pr, ky, nz, lim, wmk, bk, oi>>

\* updatePersonFields with a non-empty delta: one PATCH of the changes.
DeltaPatch(outcome) ==
  /\ dl.st = "on"
  /\ dl.pc = "patch"
  /\ dl' = [dl EXCEPT
              !.requests = @ + 1,
              !.people = IF outcome = "ok" THEN SinkPatch(@, 1, dl.changes) ELSE @,
              !.result = IF outcome = "ok" THEN "updated" ELSE "failed",
              !.idSet = @ \/ (outcome = "ok" /\ dl.changes.heyreach_lead_id # 0),
              !.pc = "done"]
  /\ UNCHANGED <<mainVars, pg, gate, rt, pr, ky, nz, lim, wmk, bk, oi>>

\* No changes: no request.
DeltaUnchanged ==
  /\ dl.st = "on"
  /\ dl.pc = "same"
  /\ dl' = [dl EXCEPT !.result = "unchanged", !.pc = "done"]
  /\ UNCHANGED <<mainVars, pg, gate, rt, pr, ky, nz, lim, wmk, bk, oi>>

\* A later run finds the record as the run before left it; its row has the
\* name and the company of the run before, and a title and an external id
\* of its own.
DeltaNextRun ==
  /\ dl.st = "on"
  /\ dl.pc = "done"
  /\ dl.run < MaxDeltaRuns
  /\ \E rj, rh \in FieldValues :
       dl' = [dl EXCEPT
                !.run = @ + 1,
                !.pc = "detect",
                !.before = dl.people[1],
                !.row = [dl.row EXCEPT !.job_title = rj, !.heyreach_lead_id = rh],
                !.changes = [name |-> 0, job_title_5 |-> 0, company_name |-> 0,
                             heyreach_lead_id |-> 0],
                !.requests = 0,
                !.result = "none"]
  /\ UNCHANGED <<mainVars, pg, gate, rt, pr, ky, nz, lim, wmk, bk, oi>>

DeltaNext ==
  \/ DeltaDetect
  \/ \E o \in Outcomes : DeltaPatch(o)
  \/ DeltaUnchanged
  \/ DeltaNextRun

SpecDelta == DeltaInit /\ [][DeltaNext]_vars

\* --------------------------------------------------------------------- C20
\* C20: for an existing record the patch contains the name, the title or the
\* organization if and only if the value of the row is non-empty and differs
\* from the stored value, and then it carries the value of the row; an empty
\* delta issues no request and leaves the record as it was; a patch that
\* succeeded changes the patched fields only.
C20_MinimalPatch ==
  (dl.st = "on" /\ dl.pc # "detect") =>
    LET c == dl.changes
        row == dl.row
        old == dl.before
        new == dl.people[1]
    IN
    /\ c.name # 0 <=> (row.full_name # 0 /\ row.full_name # old.full_name)
    /\ c.job_title_5 # 0 <=> (row.job_title # 0 /\ row.job_title # old.job_title)
    /\ c.company_name # 0
         <=> (row.company_name # 0 /\ row.company_name # old.company_name)
    /\ c.name \in {0, row.full_name}
    /\ c.job_title_5 \in {0, row.job_title}
    /\ c.company_name \in {0, row.company_name}
    /\ dl.requests = (IF dl.pc = "done" /\ AnyChange(c) THEN 1 ELSE 0)
    /\ dl.result = "unchanged" <=> (dl.pc = "done" /\ ~AnyChange(c))
    /\ dl.result # "updated" => new = old
    /\ dl.result = "updated" =>
         /\ new.full_name = (IF c.name # 0 THEN row.full_name ELSE old.full_name)
         /\ new.job_title
              = (IF c.job_title_5 # 0 THEN row.job_title ELSE old.job_title)
         /\ new.company_name
              = (IF c.company_name # 0 THEN row.company_name ELSE old.company_name)

C20_Witness ==
  /\ dl.st = "on"
  /\ dl.pc = "done"
  /\ dl.result = "updated"
  /\ dl.requests = 1
  /\ dl.changes.job_title_5 # 0
  /\ dl.changes.name = 0 /\ dl.row.full_name # 0
  /\ dl.changes.company_name = 0 /\ dl.row.company_name = 0
  /\ dl.people[1].company_name # 0

\* --------------------------------------------------------------------- C21
\* C21: the external id (heyreach_lead_id) of a Sink person is write-once.
\* Over the runs that reconcile the record, a patch carries the id only
\* while the stored id is empty, the stored id changes only from empty to
\* the id of the row, and a stored id that is not empty never changes.
C21_ExternalIdWriteOnce ==
  [][dl.st = "on" =>
       LET old == dl.people[1].heyreach_lead_id
           new == dl'.people[1].heyreach_lead_id
       IN
       /\ old # 0 => new = old
       /\ new # old => new = dl.row.heyreach_lead_id
       /\ (dl'.pc = "patch" /\ dl'.changes.heyreach_lead_id # 0) => old = 0]_vars

C21_Witness ==
  /\ dl.st = "on"
  /\ dl.run = 2
  /\ dl.idSet
  /\ dl.pc = "done"
  /\ dl.result = "updated"
  /\ dl.before.heyreach_lead_id # 0
  /\ dl.row.heyreach_lead_id \notin {0, dl.before.heyreach_lead_id}
  /\ dl.people[1].heyreach_lead_id = dl.before.heyreach_lead_id

\* --------------------------------------------------------------------- C22
\* C22: when no Sink record matches the key, the record the create request
\* makes carries the name, the title, the organization, the key and the
\* external id of the row, and its Sink id is in the identity map from the
\* moment it is made (so before any message of the person is created).
C22_CreateCarriesAllFields ==
  [][(pc = "person_create" /\ Len(sinkPeople') = Len(sinkPeople) + 1) =>
       LET row == validatedPeople[pIdx]
           new == sinkPeople'[Len(sinkPeople')]
       IN
       /\ new.linkedin_url_6 = row.linkedin_url
       /\ new.full_name = row.full_name
       /\ new.job_title = row.job_title
       /\ new.company_name = row.company_name
       /\ new.heyreach_lead_id = row.heyreach_lead_id
       /\ idByUrl'[row.linkedin_url] = Len(sinkPeople')]_vars

\* The messages the Sink holds that this process created.
CreatedThisRun == (hist.msgsAtStart + 1)..Len(sinkMsgs)

\* --------------------------------------------------------------------- C23
\* C23: once the thread upsert of a run is over and no back-reference patch
\* failed, every message this run created in the Sink is among the message
\* references of its person.
C23_BackReferencesComplete ==
  (pc \in {"report", "exited"} /\ hist.flow = "inbox" /\ ~hist.linkFail) =>
    \A i \in CreatedThisRun :
      i \in sinkPeople[sinkMsgs[i].person].linkedin_messages

\* --------------------------------------------------------------------- C24
\* C24: the back-reference patches come after the message creates.  A
\* message create request is issued only while no back-reference patch was
\* attempted in the run, and a back-reference patch is attempted only when
\* every thread is over (its creates completed or abandoned).
C24_LinkAfterCreates ==
  [][/\ (\E t \in Threads : hist'.msgReqs[t] > hist.msgReqs[t]) =>
          (pc = "msg_create" /\ lIdx = 0)
     /\ (pc = "link" /\ lIdx' = lIdx + 1) =>
          (tIdx > Len(validatedThreads) /\ createdMessageIds = <<>>)]_vars

C24_Witness ==
  /\ pc = "link"
  /\ lIdx = 2
  /\ Len(messagesByPerson) = 2
  /\ \A t \in Threads : hist.msgReqs[t] >= 1

\* --------------------------------------------------------------------- C25
\* C25: every message in the Sink refers to a person record of the Sink,
\* the one whose key is the key of the message's thread, and a message create
\* is only ever prepared for a thread whose person has an id in the identity
\* map.
C25_MessageRefersToPerson ==
  /\ \A i \in DOMAIN sinkMsgs :
       /\ sinkMsgs[i].person \in DOMAIN sinkPeople
       /\ sinkPeople[sinkMsgs[i].person].linkedin_url_6
            = LiUrl(sinkMsgs[i].conversation_id)
  /\ pc = "msg_create" =>
       idByUrl[validatedThreads[tIdx].person_match_linkedin_url]
         \in DOMAIN sinkPeople

C25_Witness ==
  /\ pc = "report"
  /\ \E i, j \in DOMAIN validatedThreads :
       /\ idByUrl[validatedThreads[i].person_match_linkedin_url] = 0
       /\ hist.msgReqs[validatedThreads[i].thread_id] = 0
       /\ idByUrl[validatedThreads[j].person_match_linkedin_url] # 0
       /\ \E m \in CreatedThisRun :
            /\ sinkMsgs[m].conversation_id = validatedThreads[j].thread_id
            /\ sinkMsgs[m].person
                 = idByUrl[validatedThreads[j].person_match_linkedin_url]

\* --------------------------------------------------------------------- C26
\* C26: a back-reference patch that failed, by an exception or by a non-2xx
\* response, was reported.
C26_LinkFailureReported == hist.linkFail => hist.linkLogged

\* --------------------------------------------------------------------- C27
\* C27: a failure never discards what the run extracted.  When the process
\* returns from main(), every key the extraction met is among the people
\* rows that were written out and handed to the reconciliation.
C27_ExtractedEntitiesKept ==
  (pc = "exited" /\ NonFatal) =>
    \A k \in peopleByUrl :
      \E i \in DOMAIN validatedPeople : validatedPeople[i].linkedin_url = k

\* --------------------------------------------------------------------- C28
\* The errors member of the report object: the inbox flow writes the literal
\* [], the per-lead flow the errors it collected.
ReportErrorList == IF hist.flow = "inbox" THEN {} ELSE errors

\* C28: the error list of the report a run wrote is empty only if no request
\* of the run failed.
C28_ReportListsFailures ==
  (pc = "exited" /\ NonFatal /\ reportFile = runNo) =>
    (ReportErrorList = {} => ~hist.reqFail)

MaxIdLen == 2
MaxKeyRuns == 2

\* conv.id as a string of characters; the empty string also stands for a
\* conversation without id (conv.id || '').
RECURSIVE IdsOfLen(_)
IdsOfLen(n) ==
  IF n = 0 THEN {<< >>}
  ELSE {Append(s, c) : s \in IdsOfLen(n - 1), c \in {"1", "2"}}

ConvIds == UNION {IdsOfLen(n) : n \in 0..MaxIdLen}

\* A string is a sequence of tokens, each a piece of text that the functions
\* below never split: white space, a scheme with its "://", a label of the
\* host, a slash, a path segment, a query ("?x"), a fragment ("#y").
SchemeTokens == {"https://", "http://", "HTTPS://"}
HostTokens == {"www.", "linkedin.com", "LinkedIn.com", "example.com"}
QueryTokens == {"?x"}
FragmentTokens == {"#y"}

\* correspondentProfile.profileUrl: missing, blank, or the URL of a profile.
ProfileUrls ==
  {<< >>, <<" ">>, <<"https://", "www.", "linkedin.com", "/", "in", "/", "a">>}

\* String.prototype.trim
RECURSIVE trim(_)
trim(s) ==
  IF s = << >> THEN s
  ELSE IF Head(s) = " " THEN trim(Tail(s))
  ELSE IF s[Len(s)] = " " THEN trim(SubSeq(s, 1, Len(s) - 1))
  ELSE s

\* The URL parser writes the scheme and the host in lower case.
toLowerCase(tok) ==
  CASE tok = "HTTPS://" -> "https://"
    [] tok = "LinkedIn.com" -> "linkedin.com"
    [] OTHER -> tok

\* The index of the first token of s that is in set, Len(s) + 1 if none is.
IndexOfAny(s, set) ==
  LET hits == {i \in 1..Len(s) : s[i] \in set} IN
  IF hits = {} THEN Len(s) + 1 ELSE CHOOSE i \in hits : \A j \in hits : i <= j

\* new URL(text): the scheme, the host up to the first slash, query or
\* fragment, the path up to the query or fragment, the query, the fragment.
\* A text without scheme or without a well-formed host makes it throw
\* (ok is FALSE).
URL(text) ==
  IF text = << >> \/ Head(text) \notin SchemeTokens THEN [ok |-> FALSE]
  ELSE
    LET rest == Tail(text)
        hEnd == IndexOfAny(rest, {"/"} \cup QueryTokens \cup FragmentTokens)
        host == SubSeq(rest, 1, hEnd - 1)
        afterHost == SubSeq(rest, hEnd, Len(rest))
        pEnd == IndexOfAny(afterHost, QueryTokens \cup FragmentTokens)
        afterPath == SubSeq(afterHost, pEnd, Len(afterHost))
        qEnd == IndexOfAny(afterPath, FragmentTokens)
    IN
    IF host = << >> \/ \E i \in 1..Len(host) : host[i] \notin HostTokens
      THEN [ok |-> FALSE]
      ELSE [ok |-> TRUE,
            protocol |-> toLowerCase(Head(text)),
            hostname |-> [i \in 1..Len(host) |-> toLowerCase(host[i])],
            pathname |-> SubSeq(afterHost, 1, pEnd - 1),
            search |-> SubSeq(afterPath, 1, qEnd - 1),
            hash |-> SubSeq(afterPath, qEnd, Len(afterPath))]

\* u.toString(): the path of an http(s) URL is never empty.
toString(u) ==
  <<u.protocol>> \o u.hostname
    \o (IF u.pathname = << >> THEN <<"/">> ELSE u.pathname)
    \o u.search \o u.hash

\* u.hostname.includes('linkedin')
includesLinkedin(hostname) ==
  \E i \in 1..Len(hostname) : hostname[i] = "linkedin.com"

\* normalizeLinkedInUrl: '' for a missing URL; the trimmed text for a text
\* that is no URL or whose host is not LinkedIn's; else the URL as the parser
\* writes it, without query and fragment and without one final slash.
normalizeLinkedInUrl(url) ==
  IF url = << >> THEN << >>
  ELSE
    LET u == URL(trim(url)) IN
    IF ~u.ok THEN trim(url)
    ELSE IF includesLinkedin(u.hostname)
      THEN LET normalized == toString([u EXCEPT !.hash = << >>, !.search = << >>])
           IN IF normalized[Len(normalized)] = "/"
                THEN SubSeq(normalized, 1, Len(normalized) - 1)
                ELSE normalized
    ELSE trim(url)

\* A synthetic URL that leaves the conversation id out.
SyntheticUrlNoId(convId) == <<"https://www.linkedin.com/in/conversation-">>

\* `https://www.linkedin.com/in/conversation-${convId}`
SyntheticUrl(convId) == <<"https://www.linkedin.com/in/conversation-">> \o convId

\* liUrl of a conversation, as the extraction computes it.
liUrlOf(conv) ==
  LET liUrl == normalizeLinkedInUrl(conv.profileUrl) IN
  IF liUrl = << >> THEN SyntheticUrl(conv.id) ELSE liUrl

KeyInit ==
  /\ MainOff
  /\ pg = Off /\ gate = Off /\ rt = Off /\ pr = Off /\ dl = Off
  /\ nz = Off /\ lim = Off /\ wmk = Off /\ bk = Off /\ oi = Off
  /\ \E ida, idb \in ConvIds, pa, pb \in ProfileUrls, na, nb \in {0, 1} :
       ky = [st |-> "on", run |-> 1,
             conv |-> <<[id |-> ida, profileUrl |-> pa, firstName |-> na],
                        [id |-> idb, profileUrl |-> pb, firstName |-> nb]>>,
             key |-> <<<< >>, << >>>>,
             first |-> <<<< >>, << >>>>,
             extracted |-> {}]

\* The extraction processes conversation e and computes its key.
KeyExtract(e) ==
  /\ ky.st = "on"
  /\ e \notin ky.extracted
  /\ ky' = [ky EXCEPT
              !.key[e] = liUrlOf(ky.conv[e]),
              !.first[e] = IF ky.run = 1 THEN liUrlOf(ky.conv[e]) ELSE @,
              !.extracted = @ \cup {e}]
  /\ UNCHANGED <<mainVars, pg, gate, rt, pr, dl, nz, lim, wmk, bk, oi>>

\* A later run extracts the same conversations; the names of the
\* correspondents may have changed in the Source, the ids and the profile
\* URLs have not.
KeyNextRun ==
  /\ ky.st = "on"
  /\ ky.extracted = {1, 2}
  /\ ky.run < MaxKeyRuns
  /\ \E na, nb \in {0, 1} :
       ky' = [ky EXCEPT
                !.run = @ + 1,
                !.conv[1].firstName = na,
                !.conv[2].firstName = nb,
                !.key = <<<< >>, << >>>>,
                !.extracted = {}]
  /\ UNCHANGED <<mainVars, pg, gate, rt, pr, dl, nz, lim, wmk, bk, oi>>

KeyNext ==
  \/ \E e \in {1, 2} : KeyExtract(e)
  \/ KeyNextRun

SpecKey == KeyInit /\ [][KeyNext]_vars

\* --------------------------------------------------------------------- C30
\* C30: the key of a conversation without profile URL is a function of its
\* id alone.  In every run it is the key the first run gave it, and two
\* such conversations have the same key only if they have the same id.
C30_SyntheticKeyFromId ==
  ky.st = "on" =>
    LET NoProfile(e) == normalizeLinkedInUrl(ky.conv[e].profileUrl) = << >> IN
    /\ \A e \in ky.extracted : NoProfile(e) => ky.key[e] = ky.first[e]
    /\ \A e, f \in ky.extracted :
         (NoProfile(e) /\ NoProfile(f)) =>
           (ky.key[e] = ky.key[f] <=> ky.conv[e].id = ky.conv[f].id)

C30_Witness ==
  /\ ky.st = "on"
  /\ ky.run = 2
  /\ ky.extracted = {1, 2}
  /\ ky.conv[1].profileUrl = << >>
  /\ ky.conv[2].profileUrl = <<" ">>
  /\ ky.conv[1].id # ky.conv[2].id
  /\ Len(ky.conv[1].id) = Len(ky.conv[2].id)
  /\ ky.conv[1].firstName # ky.conv[2].firstName
  /\ ky.key[1] # ky.key[2]
  /\ ky.key[1] = ky.first[1]

\* ------------------------------------- normalizeLinkedInUrl on its own
\* Bounds: the white space before and after a URL, and the slashes its path
\* ends in.
MaxPad == 1
MaxSlashes == 2

LinkedInHosts == {"linkedin.com", "LinkedIn.com"}

\* The parts a text is written from: white space, a scheme or none, "www."
\* or not, a host, the segments of a profile path or none, final slashes, a
\* query or none, a fragment or none, white space.
UrlParts ==
  [lead : 0..MaxPad,
   scheme : {<< >>} \cup {<<t>> : t \in SchemeTokens},
   www : BOOLEAN,
   host : LinkedInHosts \cup {"example.com"},
   segs : {<< >>, <<"/", "in", "/", "a">>},
   slashes : 0..MaxSlashes,
   query : {<< >>} \cup {<<t>> : t \in QueryTokens},
   frag : {<< >>} \cup {<<t>> : t \in FragmentTokens},
   trail : 0..MaxPad]

\* The text of the parts.
Render(p) ==
  [i \in 1..p.lead |-> " "] \o p.scheme
    \o (IF p.www THEN <<"www.">> ELSE << >>) \o <<p.host>>
    \o p.segs \o [i \in 1..p.slashes |-> "/"]
    \o p.query \o p.frag \o [i \in 1..p.trail |-> " "]

\* An absolute URL of LinkedIn.
IsProfileUrl(p) == p.scheme # << >> /\ p.host \in LinkedInHosts

VariantKinds == {"scheme", "host", "slash", "query", "fragment"}

\* The scheme and the form of the host a variant may be written with.
Forms == [scheme : {<<t>> : t \in SchemeTokens}, www : BOOLEAN,
          host : LinkedInHosts]

\* The text that differs from p in the one respect kind, and in nothing
\* else: the scheme of f; the host in the form of f ("www." or not, letter
\* case); a final slash or none; a query or none; a fragment or none.
Variant(kind, f, p) ==
  CASE kind = "scheme" -> [p EXCEPT !.scheme = f.scheme]
    [] kind = "host" -> [p EXCEPT !.www = f.www, !.host = f.host]
    [] kind = "slash" -> [p EXCEPT !.slashes = IF @ = 0 THEN 1 ELSE 0]
    [] kind = "query" ->
         [p EXCEPT !.query = IF @ = << >> THEN <<"?x">> ELSE << >>]
    [] kind = "fragment" ->
         [p EXCEPT !.frag = IF @ = << >> THEN <<"#y">> ELSE << >>]

\* The URL a as the Source gave it; b is a itself until a variant is taken.
NormInit ==
  /\ MainOff
  /\ pg = Off /\ gate = Off /\ rt = Off /\ pr = Off /\ dl = Off /\ ky = Off
  /\ lim = Off /\ wmk = Off /\ bk = Off /\ oi = Off
  /\ \E p \in UrlParts :
       nz = [st |-> "on", pc |-> "input", kind |-> "none", a |-> p, b |-> p,
             key |-> <<<< >>, << >>>>, again |-> <<<< >>, << >>>>]

\* Another conversation gives the same profile with a URL that differs from
\* a in one respect.
NormVary(kind, f) ==
  /\ nz.st = "on"
  /\ nz.pc = "input"
  /\ kind = "slash" => nz.a.slashes <= 1
  /\ Variant(kind, f, nz.a) # nz.a
  /\ nz' = [nz EXCEPT !.pc = "varied", !.kind = kind,
                      !.b = Variant(kind, f, nz.a)]
  /\ UNCHANGED <<mainVars, pg, gate, rt, pr, dl, ky, lim, wmk, bk, oi>>

\* The extraction computes the identity key of both texts.
NormApply ==
  /\ nz.st = "on"
  /\ nz.pc \in {"input", "varied"}
  /\ nz' = [nz EXCEPT
              !.pc = "keys",
              !.key = <<normalizeLinkedInUrl(Render(nz.a)),
                        normalizeLinkedInUrl(Render(nz.b))>>]
  /\ UNCHANGED <<mainVars, pg, gate, rt, pr, dl, ky, lim, wmk, bk, oi>>

\* normalizeLinkedInUrl is applied to the two keys.
NormAgain ==
  /\ nz.st = "on"
  /\ nz.pc = "keys"
  /\ nz' = [nz EXCEPT
              !.pc = "again",
              !.again = <<normalizeLinkedInUrl(nz.key[1]),
                          normalizeLinkedInUrl(nz.key[2])>>]
  /\ UNCHANGED <<mainVars, pg, gate, rt, pr, dl, ky, lim, wmk, bk, oi>>

NormNext ==
  \/ \E kind \in VariantKinds, f \in Forms : NormVary(kind, f)
  \/ NormApply
  \/ NormAgain

SpecNorm == NormInit /\ [][NormNext]_vars

\* --------------------------------------------------------------------- C31
\* C31: two profile URLs that differ only in the scheme, the form of the
\* host, a final slash, the query or the fragment have the same identity key.
C31_VariantsShareKey ==
  (/\ nz.st = "on"
   /\ nz.pc \in {"keys", "again"}
   /\ nz.kind # "none"
   /\ IsProfileUrl(nz.a)
   /\ IsProfileUrl(nz.b))
    => nz.key[1] = nz.key[2]

\* ------------------------------------------------- the MAX_LEADS cap
\* Bounds: the leads (and conversations) the Source holds, and the largest
\* value of MAX_LEADS in the environment.
MaxLeads == 3
MaxCap == 2

RECURSIVE SeqOfSet(_)
\* Array.from(uniqueLeadsById.values()): the leads in the order of their ids.
SeqOfSet(set) ==
  IF set = {} THEN << >>
  ELSE LET x == CHOOSE y \in set : \A z \in set : y <= z
       IN <<x>> \o SeqOfSet(set \ {x})

\* leadsArray.slice(0, MAX_LEADS) when MAX_LEADS > 0 and there are more leads.
leadsArrayOf(uniqueLeads, maxLeads) ==
  IF maxLeads > 0 /\ Len(uniqueLeads) > maxLeads
    THEN SubSeq(uniqueLeads, 1, maxLeads)
    ELSE uniqueLeads

\* The Source holds the leads 1..n, each with one conversation; withUrl are
\* the leads that have a LinkedIn URL.  The process runs live, in the inbox
\* flow or in the per-lead flow.
LimInit ==
  /\ MainOff
  /\ pg = Off /\ gate = Off /\ rt = Off /\ pr = Off /\ dl = Off /\ ky = Off
  /\ nz = Off /\ wmk = Off /\ bk = Off /\ oi = Off
  /\ \E n \in 0..MaxLeads, cap \in 0..MaxCap, flow \in {"inbox", "lead"} :
       \E withUrl \in SUBSET (1..n) :
         lim = [st |-> "on", pc |-> flow, flow |-> flow, MAX_LEADS |-> cap,
                leads |-> 1..n, withUrl |-> withUrl,
                leadsArray |-> << >>, peopleRows |-> << >>,
                tasksDone |-> {}, extracted |-> {}, submitted |-> {}]

\* Per-lead flow, 1) and 2): the leads are collected, leadsArray is the
\* subset for pilot runs, and the people rows are built from
\* uniqueLeadsById.values(), one for every lead that has a LinkedIn URL.
LimCollectLeads ==
  /\ lim.st = "on"
  /\ lim.pc = "lead"
  /\ LET uniqueLeads == SeqOfSet(lim.leads) IN
     lim' = [lim EXCEPT
               !.pc = "lead_convs",
               !.leadsArray = leadsArrayOf(uniqueLeads, lim.MAX_LEADS),
               !.peopleRows = SelectSeq(uniqueLeads, LAMBDA l : l \in lim.withUrl)]
  /\ UNCHANGED <<mainVars, pg, gate, rt, pr, dl, ky, nz, wmk, bk, oi>>

\* Per-lead flow, 3): the task of one lead of leadsArray; it fetches the
\* conversations of the lead if the lead has a LinkedIn URL.
LimFetchConversations(i) ==
  /\ lim.st = "on"
  /\ lim.pc = "lead_convs"
  /\ i \in 1..Len(lim.leadsArray)
  /\ lim.leadsArray[i] \notin lim.tasksDone
  /\ lim' = [lim EXCEPT !.tasksDone = @ \cup {lim.leadsArray[i]}]
  /\ UNCHANGED <<mainVars, pg, gate, rt, pr, dl, ky, nz, wmk, bk, oi>>

\* Per-lead flow, 4) and 5): people.csv holds peopleRows; nothing is sent to
\* the Sink.
LimWriteLeadOutputs ==
  /\ lim.st = "on"
  /\ lim.pc = "lead_convs"
  /\ \A i \in 1..Len(lim.leadsArray) : lim.leadsArray[i] \in lim.tasksDone
  /\ lim' = [lim EXCEPT !.pc = "done"]
  /\ UNCHANGED <<mainVars, pg, gate, rt, pr, dl, ky, nz, wmk, bk, oi>>

\* Inbox flow: the conversation of lead c is processed; the correspondent is
\* new to peopleByUrl (with the profile URL or with the synthetic one), so a
\* people row is added.  MAX_LEADS is not read.
LimExtractConversation(c) ==
  /\ lim.st = "on"
  /\ lim.pc = "inbox"
  /\ c \in lim.leads \ lim.extracted
  /\ lim' = [lim EXCEPT !.extracted = @ \cup {c},
                        !.peopleRows = Append(@, c)]
  /\ UNCHANGED <<mainVars, pg, gate, rt, pr, dl, ky, nz, wmk, bk, oi>>

\* Inbox flow: people.csv is written and attioUpsertPeople starts.
LimWriteOutputs ==
  /\ lim.st = "on"
  /\ lim.pc = "inbox"
  /\ lim.extracted = lim.leads
  /\ lim' = [lim EXCEPT !.pc = IF lim.peopleRows = << >> THEN "done"
                               ELSE "people"]
  /\ UNCHANGED <<mainVars, pg, gate, rt, pr, dl, ky, nz, wmk, bk, oi>>

\* Inbox flow: attioUpsertPeople submits the next row to the Sink.
LimUpsertPerson ==
  /\ lim.st = "on"
  /\ lim.pc = "people"
  /\ LET i == Cardinality(lim.submitted) + 1 IN
     lim' = [lim EXCEPT
               !.submitted = @ \cup {lim.peopleRows[i]},
               !.pc = IF i = Len(lim.peopleRows) THEN "done" ELSE "people"]
  /\ UNCHANGED <<mainVars, pg, gate, rt, pr, dl, ky, nz, wmk, bk, oi>>

LimNext ==
  \/ LimCollectLeads
  \/ \E i \in 1..MaxLeads : LimFetchConversations(i)
  \/ LimWriteLeadOutputs
  \/ \E c \in 1..MaxLeads : LimExtractConversation(c)
  \/ LimWriteOutputs
  \/ LimUpsertPerson

SpecLimit == LimInit /\ [][LimNext]_vars

\* --------------------------------------------------------------------- C32
\* C32: with MAX_LEADS = N > 0 a run writes at most N person rows and
\* submits at most N people to the Sink, in both flows.
C32_AtMostMaxLeadsPeople ==
  (lim.st = "on" /\ lim.MAX_LEADS > 0) =>
    /\ Len(lim.peopleRows) <= lim.MAX_LEADS
    /\ Cardinality(lim.submitted) <= lim.MAX_LEADS

\* --------------------------------------------------------------------- C33
\* C33: a dry run sends the Sink no request that creates or modifies a
\* record: no person create, no person patch, no message create and no
\* back-reference patch.
C33_DryRunSendsNoWrite ==
  cfg.dry =>
    /\ \A k \in Keys : hist.writes[k] = 0 /\ hist.creates[k] = 0
    /\ \A t \in Threads : hist.msgReqs[t] = 0
    /\ hist.nCreated = 0 /\ hist.nUpdated = 0

\* A dry inbox run extracted a person and a thread with a message, passed
\* both upserts and wrote its report.
C33_Witness ==
  /\ cfg.dry
  /\ pc = "exited"
  /\ hist.flow = "inbox"
  /\ Len(validatedPeople) > 0
  /\ Len(validatedThreads) > 0
  /\ Len(messageRows) > 0
  /\ reportFile = runNo

\* --------------------------------------------------------------------- C34
\* C34: a dry run changes no data.  When a dry run has ended, the watermark
\* file reads as it did when the run loaded it, so that the next live run
\* takes the same decisions as without the dry run.
C34_DryRunKeepsWatermark ==
  (cfg.dry /\ pc = "exited" /\ NonFatal) =>
    readJsonSafe(wmFile, EmptySyncState) = hist.loaded

\* ------------------------------------------- the watermark over the runs
\* Bounds: the runs, and the largest lastMessageAt the Source reports (0 is
\* a missing one, conv.lastMessageAt || '').
MaxWmkRuns == 3
MaxStamp == 2

\* The watermark file is absent and no process runs.  A run is an inbox run
\* with or without HR_FORCE_INBOX.
WmkInit ==
  /\ MainOff
  /\ pg = Off /\ gate = Off /\ rt = Off /\ pr = Off /\ dl = Off /\ ky = Off
  /\ nz = Off /\ lim = Off /\ bk = Off /\ oi = Off
  /\ wmk = [st |-> "on", pc |-> "idle", run |-> 0, force |-> FALSE,
            file |-> NoFile, syncState |-> EmptySyncState, seen |-> {}]

\* The head of main(): the watermark load.
WmkStartRun(force) ==
  /\ wmk.st = "on"
  /\ wmk.pc = "idle"
  /\ wmk.run < MaxWmkRuns
  /\ wmk' = [wmk EXCEPT
               !.pc = "inbox",
               !.run = @ + 1,
               !.force = force,
               !.syncState = readJsonSafe(wmk.file, EmptySyncState),
               !.seen = {}]
  /\ UNCHANGED <<mainVars, pg, gate, rt, pr, dl, ky, nz, lim, bk, oi>>

\* The per-conversation loop meets conversation t, for which the Source
\* reports lastAt: the thread is skipped, or its record is written.
WmkConversation(t, lastAt) ==
  /\ wmk.st = "on"
  /\ wmk.pc = "inbox"
  /\ t \notin wmk.seen
  /\ LET incremental == wmk.syncState.last_sync # 0 /\ ~wmk.force IN
     wmk' = [wmk EXCEPT
               !.seen = @ \cup {t},
               !.syncState.threads[t] =
                 IF ShouldSkip(incremental, wmk.syncState.threads, t, lastAt)
                   THEN @
                   ELSE [has |-> TRUE, last_message_at |-> lastAt,
                         last_synced |-> wmk.run]]
  /\ UNCHANGED <<mainVars, pg, gate, rt, pr, dl, ky, nz, lim, bk, oi>>

\* All pages are processed: last_sync is set and the watermark is saved.
WmkSave ==
  /\ wmk.st = "on"
  /\ wmk.pc = "inbox"
  /\ LET saved == [wmk.syncState EXCEPT !.last_sync = wmk.run] IN
     wmk' = [wmk EXCEPT !.pc = "idle", !.syncState = saved,
                        !.file = [st |-> "ok", data |-> saved]]
  /\ UNCHANGED <<mainVars, pg, gate, rt, pr, dl, ky, nz, lim, bk, oi>>

\* A page fetch throws: the inbox flow is left without saving the watermark.
WmkAbandon ==
  /\ wmk.st = "on"
  /\ wmk.pc = "inbox"
  /\ wmk' = [wmk EXCEPT !.pc = "idle"]
  /\ UNCHANGED <<mainVars, pg, gate, rt, pr, dl, ky, nz, lim, bk, oi>>

WmkNext ==
  \/ \E force \in BOOLEAN : WmkStartRun(force)
  \/ \E t \in Threads, lastAt \in 0..MaxStamp : WmkConversation(t, lastAt)
  \/ WmkSave
  \/ WmkAbandon

SpecWatermark == WmkInit /\ [][WmkNext]_vars

\* --------------------------------------------------------------------- C35
\* C35: the persisted last_message_at of a thread never decreases, whatever
\* the runs are (forced full ones included) and whatever the Source reports.
C35_WatermarkStep ==
  (wmk.st = "on" /\ wmk'.st = "on") =>
    \A t \in Threads :
      LET old == readJsonSafe(wmk.file, EmptySyncState).threads[t]
          new == readJsonSafe(wmk'.file, EmptySyncState).threads[t]
      IN old.has => (new.has /\ new.last_message_at >= old.last_message_at)

C35_WatermarkNeverDecreases == [][C35_WatermarkStep]_vars

\* --------------------------------------------------------------------- C36
\* C36: normalizeLinkedInUrl is idempotent: normalizing a key again gives
\* the same key, also for a URL whose path ends in several slashes.
C36_NormalizeIdempotent ==
  (nz.st = "on" /\ nz.pc = "again") => nz.again = nz.key

\* ------------------------------------ the object ids and the person patches
\* Bound: the people rows of the run that need a field update.
MaxPatchRows == 2

Slugs == {"people", "linkedin_messages"}

\* The answers of GET /v2/objects: an exception, a non-2xx status, or a
\* list that holds an object id for some of the two slugs.
Listings ==
  {[res |-> "throw", slugs |-> {}], [res |-> "status", slugs |-> {}]}
    \cup {[res |-> "ok", slugs |-> ss] : ss \in SUBSET Slugs}

\* No request to /v2/objects is made.
NoListing == [res |-> "none", slugs |-> {}]

\* ensureAttioObjectIdsLoaded returns at once when both ids are known.
idsLoaded(ids) == ids.people /\ ids.linkedin_messages

\* ensureAttioObjectIdsLoaded: the ids after the call (TRUE is a non-empty
\* id), when the listing is answered by listing.
ensureAttioObjectIdsLoaded(ids, listing) ==
  IF idsLoaded(ids) \/ listing.res # "ok" THEN ids
  ELSE [people |-> ids.people \/ "people" \in listing.slugs,
        linkedin_messages |->
          ids.linkedin_messages \/ "linkedin_messages" \in listing.slugs]

\* The listing that answers a call of ensureAttioObjectIdsLoaded.
ListingFor(ids, listing) ==
  IF idsLoaded(ids) THEN listing = NoListing ELSE listing \in Listings

\* A live run is about to call attioUpsertPeople with rows people rows, each
\* of a person the Sink holds with other field values; links of these
\* persons get messages created by attioUpsertThreads.
ObjIdsInit ==
  /\ MainOff
  /\ pg = Off /\ gate = Off /\ rt = Off /\ pr = Off /\ dl = Off /\ ky = Off
  /\ nz = Off /\ lim = Off /\ wmk = Off /\ bk = Off
  /\ \E rows \in 1..MaxPatchRows :
       \E links \in 0..rows :
         oi = [st |-> "on", pc |-> "begin", rows |-> rows, links |-> links,
               i |-> 1,
               ids |-> [people |-> FALSE, linkedin_messages |-> FALSE],
               patches |-> << >>]

\* attioUpsertPeople up to the loop over the rows; an exception of the
\* listing leaves attioUpsertPeople, and main() skips the thread upsert.
ObjIdsUpsertPeopleBegin(listing) ==
  /\ oi.st = "on"
  /\ oi.pc = "begin"
  /\ ListingFor(oi.ids, listing)
  /\ oi' = [oi EXCEPT
              !.ids = ensureAttioObjectIdsLoaded(@, listing),
              !.pc = IF listing.res = "throw" THEN "done" ELSE "rows"]
  /\ UNCHANGED <<mainVars, pg, gate, rt, pr, dl, ky, nz, lim, wmk, bk>>

\* updatePersonFields of row i: the ids are loaded if they are missing, then
\* the PATCH goes to /v2/objects/${AT_PEOPLE_OBJECT_ID}/records/${recordId}.
\* An exception of the listing is caught and no PATCH is sent.
ObjIdsUpdatePerson(listing) ==
  /\ oi.st = "on"
  /\ oi.pc = "rows"
  /\ ListingFor(oi.ids, listing)
  /\ LET ids == ensureAttioObjectIdsLoaded(oi.ids, listing) IN
     oi' = [oi EXCEPT
              !.ids = ids,
              !.patches =
                IF listing.res = "throw" THEN @
                ELSE Append(@, [kind |-> "update", objectId |-> ids.people]),
              !.i = IF oi.i < oi.rows THEN @ + 1 ELSE 1,
              !.pc = IF oi.i < oi.rows THEN "rows"
                     ELSE IF oi.links > 0 THEN "links"
                     ELSE "done"]
  /\ UNCHANGED <<mainVars, pg, gate, rt, pr, dl, ky, nz, lim, wmk, bk>>

\* attioUpsertThreads, Step 2, for person i: the same with the PATCH of the
\* message references.
ObjIdsLinkPatch(listing) ==
  /\ oi.st = "on"
  /\ oi.pc = "links"
  /\ ListingFor(oi.ids, listing)
  /\ LET ids == ensureAttioObjectIdsLoaded(oi.ids, listing) IN
     oi' = [oi EXCEPT
              !.ids = ids,
              !.patches =
                IF listing.res = "throw" THEN @
                ELSE Append(@, [kind |-> "link", objectId |-> ids.people]),
              !.i = @ + 1,
              !.pc = IF oi.i < oi.links THEN "links" ELSE "done"]
  /\ UNCHANGED <<mainVars, pg, gate, rt, pr, dl, ky, nz, lim, wmk, bk>>

ObjIdsNext ==
  \/ \E l \in Listings \cup {NoListing} : ObjIdsUpsertPeopleBegin(l)
  \/ \E l \in Listings \cup {NoListing} : ObjIdsUpdatePerson(l)
  \/ \E l \in Listings \cup {NoListing} : ObjIdsLinkPatch(l)

SpecObjIds == ObjIdsInit /\ [][ObjIdsNext]_vars

\* --------------------------------------------------------------------- C37
\* C37: a person PATCH (field update or back-reference link) is sent only
\* with a non-empty people object id: when the listing of the objects fails
\* or does not hold the slug, no PATCH is sent.
C37_PatchOnlyWithObjectId ==
  oi.st = "on" =>
    \A n \in 1..Len(oi.patches) : oi.patches[n].objectId

\* ----------------------------------------- the backup-and-cleanup scripts
\* attio-streaming-backup.js (streamBackupRecords, deleteRecordsBatch) and
\* the full reset script (fetchAllRecords, deleteAllRecords).
\* Bound: the records the Sink holds of each object, with the ids 1..n.
MaxRecords == 3

\* limit of a records query, here two records a page.
BACKUP_LIMIT == 2

Objects == {"people", "linkedin_messages"}

\* The answers of a request: a response, a connection reset or timeout
\* (ECONNRESET, ETIMEDOUT), another error.
Answers == {"ok", "reset", "error"}

\* POST /v2/objects/<slug>/records/query { limit, offset }
QueryRecords(held, limit, offset) ==
  LET all == SeqOfSet(held) IN
  SubSeq(all, offset + 1, Min(offset + limit, Len(all)))

Elems(s) == {s[i] : i \in 1..Len(s)}

NoBackupFile == [st |-> "none", ids |-> << >>]

\* A cleanup that deletes what the Sink holds when the deletion starts.
DeleteIdsOfSink(script, file, mem, held) == SeqOfSet(held)

\* The record ids the deletion works on: the streaming script reads them
\* from the backup file it wrote, the reset script takes the records it
\* fetched for the backup.
DeleteIds(script, file, mem, held) ==
  IF script = "streaming" THEN file.ids ELSE mem

\* The run of one of the two scripts starts with the backup of the people:
\* streamBackupRecords writes the head of the file, fetchAllRecords starts
\* with an empty list.
BackupInit ==
  /\ MainOff
  /\ pg = Off /\ gate = Off /\ rt = Off /\ pr = Off /\ dl = Off /\ ky = Off
  /\ nz = Off /\ lim = Off /\ wmk = Off /\ oi = Off
  /\ \E script \in {"streaming", "reset"}, np, nm \in 0..MaxRecords :
       bk = [st |-> "on", script |-> script, pc |-> "query",
             obj |-> "people", offset |-> 0,
             sink |-> [people |-> 1..np, linkedin_messages |-> 1..nm],
             file |-> [people |-> IF script = "streaming"
                                    THEN [st |-> "open", ids |-> << >>]
                                    ELSE NoBackupFile,
                       linkedin_messages |-> NoBackupFile],
             allRecords |-> << >>,
             mem |-> [people |-> << >>, linkedin_messages |-> << >>],
             todo |-> << >>,
             deletes |-> {}]

\* The backup of object b.obj is over with the ids and the list given: the
\* file is closed (streaming) or written (reset), and the backup of the
\* messages, or the listing of the objects, comes next.
BackupOver(b, ids, list) ==
  LET closed == [b EXCEPT !.file[b.obj] = [st |-> "closed", ids |-> ids],
                          !.mem[b.obj] = list,
                          !.allRecords = << >>,
                          !.offset = 0]
  IN
  IF b.obj = "people"
    THEN [closed EXCEPT
            !.obj = "linkedin_messages",
            !.file["linkedin_messages"] =
              IF b.script = "streaming" THEN [st |-> "open", ids |-> << >>]
              ELSE NoBackupFile]
    ELSE [closed EXCEPT !.pc = "objects"]

\* streamBackupRecords: one pass of the while loop.
StreamQuery(answer) ==
  /\ bk.st = "on"
  /\ bk.script = "streaming"
  /\ bk.pc = "query"
  /\ LET records == QueryRecords(bk.sink[bk.obj], BACKUP_LIMIT, bk.offset)
         ids == bk.file[bk.obj].ids \o records
     IN
     bk' = IF answer = "reset" THEN [bk EXCEPT !.pc = "wait"]
           ELSE IF answer = "error" THEN BackupOver(bk, bk.file[bk.obj].ids, << >>)
           ELSE IF Len(records) = 0 \/ Len(records) < BACKUP_LIMIT
             THEN BackupOver(bk, ids, << >>)
           ELSE [bk EXCEPT !.file[bk.obj].ids = ids,
                           !.offset = @ + BACKUP_LIMIT]
  /\ UNCHANGED <<mainVars, pg, gate, rt, pr, dl, ky, nz, lim, wmk, oi>>

\* streamBackupRecords: the 5 seconds before the retry are over.
StreamRetry ==
  /\ bk.st = "on"
  /\ bk.pc = "wait"
  /\ bk' = [bk EXCEPT !.pc = "query"]
  /\ UNCHANGED <<mainVars, pg, gate, rt, pr, dl, ky, nz, lim, wmk, oi>>

\* fetchAllRecords: one pass of the while loop; every error ends the loop.
FetchQuery(answer) ==
  /\ bk.st = "on"
  /\ bk.script = "reset"
  /\ bk.pc = "query"
  /\ LET records == QueryRecords(bk.sink[bk.obj], BACKUP_LIMIT, bk.offset)
         all == bk.allRecords \o records
     IN
     bk' = IF answer # "ok" THEN BackupOver(bk, bk.allRecords, bk.allRecords)
           ELSE IF Len(records) < BACKUP_LIMIT THEN BackupOver(bk, all, all)
           ELSE [bk EXCEPT !.allRecords = all, !.offset = @ + BACKUP_LIMIT]
  /\ UNCHANGED <<mainVars, pg, gate, rt, pr, dl, ky, nz, lim, wmk, oi>>

\* The deletion of the next object that has ids, or the verification.
DeletionOf(b, obj) ==
  LET ids(o) == DeleteIds(b.script, b.file[o], b.mem[o], b.sink[o]) IN
  IF obj = "linkedin_messages" /\ ids(obj) # << >>
    THEN [b EXCEPT !.pc = "delete", !.obj = obj, !.todo = ids(obj)]
  ELSE IF ids("people") # << >>
    THEN [b EXCEPT !.pc = "delete", !.obj = "people", !.todo = ids("people")]
  ELSE [b EXCEPT !.pc = "verify", !.todo = << >>]

\* The object ids are fetched; without them the script ends with an error.
\* Then, after the time to cancel, the ids to delete are loaded and the
\* deletion starts with the messages.
GetObjectIds(answer) ==
  /\ bk.st = "on"
  /\ bk.pc = "objects"
  /\ bk' = IF answer = "ok" THEN DeletionOf(bk, "linkedin_messages")
           ELSE [bk EXCEPT !.pc = "failed"]
  /\ UNCHANGED <<mainVars, pg, gate, rt, pr, dl, ky, nz, lim, wmk, oi>>

\* One delete request: the reset script sends them in the order of the
\* list, the streaming script ten at a time.  backedUp: the backup file of
\* the object was complete and held the id when the request was sent.
DeleteRecord(id, answer) ==
  /\ bk.st = "on"
  /\ bk.pc = "delete"
  /\ id \in Elems(bk.todo)
  /\ bk.script = "reset" => id = Head(bk.todo)
  /\ LET rest == SelectSeq(bk.todo, LAMBDA x : x # id)
         sent == [bk EXCEPT
                    !.todo = rest,
                    !.deletes = @ \cup
                      {[obj |-> bk.obj, id |-> id,
                        backedUp |-> /\ bk.file[bk.obj].st = "closed"
                                     /\ id \in Elems(bk.file[bk.obj].ids)]},
                    !.sink[bk.obj] = IF answer = "ok" THEN @ \ {id} ELSE @]
     IN
     bk' = IF rest # << >> THEN sent
           ELSE IF bk.obj = "linkedin_messages" THEN DeletionOf(sent, "people")
           ELSE [sent EXCEPT !.pc = "verify"]
  /\ UNCHANGED <<mainVars, pg, gate, rt, pr, dl, ky, nz, lim, wmk, oi>>

\* The verification and the report.
VerifyDeletion ==
  /\ bk.st = "on"
  /\ bk.pc = "verify"
  /\ bk' = [bk EXCEPT !.pc = "done"]
  /\ UNCHANGED <<mainVars, pg, gate, rt, pr, dl, ky, nz, lim, wmk, oi>>

BackupNext ==
  \/ \E a \in Answers : StreamQuery(a)
  \/ StreamRetry
  \/ \E a \in Answers : FetchQuery(a)
  \/ \E a \in Answers : GetObjectIds(a)
  \/ \E id \in 1..MaxRecords, a \in Answers : DeleteRecord(id, a)
  \/ VerifyDeletion

SpecBackup == BackupInit /\ [][BackupNext]_vars

\* The script goes on as long as it has a step to take.
SpecBackupFair == SpecBackup /\ WF_vars(BackupNext)

\* --------------------------------------------------------------------- C38
\* C38: every record id sent in a delete request is in the backup file of
\* this run, which was complete before the first delete request, also when
\* the paging of the backup stopped on an error.
C38_DeletedIdsBackedUp ==
  bk.st = "on" =>
    /\ \A d \in bk.deletes : d.backedUp
    /\ bk.deletes # {} => \A o \in Objects : bk.file[o].st = "closed"

\* The backup of the people stopped on an error and left a record of the
\* Sink out; the people the backup holds have been deleted and the one it
\* does not hold is still in the Sink.
C38_Witness ==
  /\ bk.st = "on"
  /\ bk.pc = "done"
  /\ \E d \in bk.deletes : d.obj = "people"
  /\ \E id \in bk.sink["people"] : id \notin Elems(bk.file["people"].ids)
  /\ \A id \in Elems(bk.file["people"].ids) : id \notin bk.sink["people"]

\* --------------------------------------------------------------------- C39
\* C39: streamBackupRecords terminates whatever the Sink does: it stops
\* paging and closes the JSON array of the backup file, also when the Sink
\* keeps failing with connection resets or timeouts.
C39_StreamBackupTerminates ==
  <>(bk.st = "on" /\ bk.file["people"].st = "closed")

====
